---- MODULE Spec2Model ----
(***************************************************************************)
(* A model of the featuresync command of testcollab-cli                    *)
(* (src/src/commands/featuresync.js): one run of the orchestrator against  *)
(* its two collaborators, the Git repository and the TestCollab service.   *)
(*                                                                         *)
(* Texts (paths, step texts, diff lines, hashes) are sequences of tokens.  *)
(* The SHA-1 digest is taken to be collision-free on its input string, so  *)
(* a hash is represented by the string that is digested.                   *)
(***************************************************************************)
EXTENDS Integers, Sequences, FiniteSets, TLC

VARIABLES
    pc,                 \* the orchestrator's position in featuresync
    token,              \* process.env.TESTCOLLAB_TOKEN is set (line 32, never changes)
    probe,              \* a function applied on its own: its arguments, then its results
    limits,             \* the bounds of this run's repository (never changes)
    lastSyncedCommit,   \* const lastSyncedCommit (line 57)
    headCommit,         \* const headCommit (line 61)
    changes,            \* let changes (line 71)
    processedChanges,   \* const processedChanges (line 110)
    oldHashes,          \* const oldHashes (line 111)
    dropped,            \* the changes processChange returned null for
    resolvedIds,        \* const resolvedIds (line 135)
    payload,            \* const payload (line 154), as a 0/1-element sequence
    calls,              \* the requests handed to fetch, in order
    responses,          \* how each answered request ended: "ok" or "fail"
    gitCalls,           \* the git queries made, in order
    reported,           \* displaySyncResults has run
    exitCode            \* process exit code (0 until process.exit(1))

vars == <<pc, token, probe, limits, lastSyncedCommit, headCommit, changes, processedChanges,
          oldHashes, dropped, resolvedIds, payload, calls, responses, gitCalls,
          reported, exitCode>>

----------------------------------------------------------------------------
(* Bounds of the model *)

\* changes in one diff, in the specification of whole runs
MaxChanges == 2
\* scenarios per file, in the specification of whole runs
MaxScenRun == 1
\* scenarios per file, in the specification of single-change runs
MaxScenMatch == 3
\* sync runs, and scenarios per file, in the specification of successive runs
MaxRuns == 3
MaxScenChain == 1

----------------------------------------------------------------------------
(* Values *)

\* JavaScript null, for a path
NullPath == <<>>
\* JavaScript null, for a commit
NullCommit == "null"

\* The commits the service may name, and the commit HEAD is at
Commits == {"c1", "c2"}
HeadCommits == {"c2"}

\* Paths are token sequences; ".feature" and ".txt" are the extension tokens.
\* The i-th changed file is OldName(i); a rename moves it to NewName(i).
FileNames == <<"a", "b", "c", "d">>
OldName(i) == <<FileNames[i], ".feature">>
NewName(i) == <<FileNames[i], "2", ".feature">>
PathN == <<"n", ".txt">>

Titles == {"T1", "T2"}

\* Gherkin steps as the parser gives them: the keyword keeps its trailing space.
StepGiven == [keyword |-> <<"Given", " ">>, text |-> <<"x">>]
StepWhen == [keyword |-> <<"When", " ">>, text |-> <<"y">>]
StepThen == [keyword |-> <<"Then", " ">>, text |-> <<"z">>]
StepLists == {<<StepWhen>>, <<StepWhen, StepThen>>}

ScenarioSources == [name : Titles, steps : StepLists]

\* An optional value is a sequence of length 0 or 1.
None == <<>>
Some(x) == <<x>>

\* What git.show can give: a file the parser rejects, a file with no Feature
\* heading, a feature file, or (FetchError) a rejected promise.
BadContent == [kind |-> "bad"]
EmptyContent == [kind |-> "empty"]
FetchError == [kind |-> "fetchError"]

\* The feature files with at most maxScen scenarios, each with a description
\* and a Background block, and one file with neither
FeatureContents(maxScen) ==
    UNION {[kind : {"feature"}, name : {"F"},
            shell : {[description |-> <<"d">>, background |-> Some(<<StepGiven>>)]},
            scenarios : [1..n -> ScenarioSources]] : n \in 0..maxScen}
    \cup {[kind |-> "feature", name |-> "G",
           shell |-> [description |-> <<>>, background |-> None],
           scenarios |-> <<[name |-> "T1", steps |-> <<StepWhen>>]>>]}

Contents(maxScen) == FeatureContents(maxScen) \cup {BadContent, EmptyContent}

----------------------------------------------------------------------------
(* Text helpers *)

Newline == <<"\n">>

\* Array.prototype.join on an array of strings
RECURSIVE Join(_, _)
Join(strs, sep) ==
    IF Len(strs) = 0 THEN <<>>
    ELSE IF Len(strs) = 1 THEN strs[1]
    ELSE strs[1] \o sep \o Join(Tail(strs), sep)

\* The values of a sequence
Range(s) == {s[i] : i \in 1..Len(s)}

\* String.prototype.endsWith('.feature')
EndsWithFeature(path) == Len(path) > 0 /\ path[Len(path)] = ".feature"

----------------------------------------------------------------------------
(* Hashing and the document extractor *)

\* A hash of the content alone
calculateHash_ContentOnly(content, filePath) == content

\* calculateHash: the digest of `${filePath}:${content}`
calculateHash(content, filePath) == filePath \o <<":">> \o content

\* `${step.keyword}${step.text}` of a parsed step
StepString(step) == step.keyword \o step.text

\* `${step.keyword}${step.text}` of a value with no such properties (a string)
StepStringOfString(str) == <<"undefined", "undefined">>

\* extractFeatureDescription: the trimmed, non-comment lines between the
\* Feature: line and the first Background:/Scenario: line, joined by "\n"
extractFeatureDescription(content) == content.shell.description

\* One entry of parseGherkinFile's scenarios array
ScenarioRecord(scenario, filePath) ==
    LET steps == [i \in 1..Len(scenario.steps) |-> StepString(scenario.steps[i])]
        stepsText == Join(steps, Newline)
    IN  [hash |-> calculateHash(stepsText, filePath),
         title |-> scenario.name,
         steps |-> steps]

\* The string the feature hash is taken of
FeatureContent(content, scenarios) ==
    LET featureDescription == extractFeatureDescription(content)
        background == content.shell.background
        withDescription ==
            IF featureDescription # <<>> THEN featureDescription \o Newline ELSE <<>>
        withBackground ==
            IF background # None
            THEN withDescription \o
                 Join([i \in 1..Len(background[1]) |-> StepString(background[1][i])],
                      Newline)
            ELSE withDescription
    IN  withBackground \o
        Join([i \in 1..Len(scenarios) |->
                 Join([j \in 1..Len(scenarios[i].steps) |->
                          StepStringOfString(scenarios[i].steps[j])], Newline)],
             Newline)

\* parseGherkinFile: "error" when the parser throws, "null" when the document
\* has no feature, otherwise the extracted document
parseGherkinFile(content, filePath) ==
    IF content.kind = "bad" THEN [kind |-> "error"]
    ELSE IF content.kind = "empty" THEN [kind |-> "null"]
    ELSE
        LET scenarios == [i \in 1..Len(content.scenarios) |->
                             ScenarioRecord(content.scenarios[i], filePath)]
            background == content.shell.background
        IN  [kind |-> "doc",
             feature |->
                 [name |-> content.name,
                  FeatureDescription |-> extractFeatureDescription(content),
                  background |->
                      IF background # None
                      THEN Some([i \in 1..Len(background[1]) |->
                                    StepString(background[1][i])])
                      ELSE None],
             featureHash |-> calculateHash(FeatureContent(content, scenarios), filePath),
             scenarios |-> scenarios]

----------------------------------------------------------------------------
(* The change classifier *)

StatusLetters == {"A", "M", "D", "R", "C"}
Digits == {"0", "1", "2", "3", "4", "5", "6", "7", "8", "9"}

\* \s on the tokens of a line (a line holds no newline)
IsSpace(t) == t \in {" ", "\t"}
IsBlank(line) == \A i \in 1..Len(line) : IsSpace(line[i])

RECURSIVE LeadingDigits(_)
LeadingDigits(s) ==
    IF Len(s) > 0 /\ s[1] \in Digits THEN 1 + LeadingDigits(Tail(s)) ELSE 0

RECURSIVE LeadingSpaces(_)
LeadingSpaces(s) ==
    IF Len(s) > 0 /\ IsSpace(s[1]) THEN 1 + LeadingSpaces(Tail(s)) ELSE 0

RECURSIVE TrailingSpaces(_)
TrailingSpaces(s) ==
    IF Len(s) > 0 /\ IsSpace(s[Len(s)])
    THEN 1 + TrailingSpaces(SubSeq(s, 1, Len(s) - 1)) ELSE 0

TrimLeft(s) == SubSeq(s, LeadingSpaces(s) + 1, Len(s))
TrimRight(s) == SubSeq(s, 1, Len(s) - TrailingSpaces(s))
\* String.prototype.trim on one line
Trim(s) == TrimRight(TrimLeft(s))

\* diffOutput.trim().split('\n'), on the lines of diffOutput; <<>> stands for
\* the empty string, which the caller returns [] for
TrimmedLines(lines) ==
    LET solid == {i \in 1..Len(lines) : ~IsBlank(lines[i])}
    IN  IF solid = {} THEN <<>>
        ELSE
            LET first == CHOOSE i \in solid : \A j \in solid : i <= j
                last == CHOOSE i \in solid : \A j \in solid : j <= i
            IN  [i \in 1..(last - first + 1) |->
                    LET l == lines[first + i - 1]
                        l1 == IF i = 1 THEN TrimLeft(l) ELSE l
                    IN  IF i = last - first + 1 THEN TrimRight(l1) ELSE l1]

\* line.match(/^([AMDRC]\d*)\s+(.+?)(?:\s+(.+))?$/): None, or the groups
\* (path2 is NullPath when the optional group did not take part)
MatchDiffLine(line) ==
    IF Len(line) = 0 \/ line[1] \notin StatusLetters THEN None
    ELSE
        LET k == LeadingDigits(Tail(line))
            status == SubSeq(line, 1, 1 + k)
            rest == SubSeq(line, 2 + k, Len(line))
            w == LeadingSpaces(rest)
            Rem(a, b) == SubSeq(rest, a + b + 1, Len(rest))
            \* \s+ takes a tokens and (.+?) takes b: the remainder is empty or
            \* matches \s+(.+)
            Ok(a, b) ==
                /\ a + b <= Len(rest)
                /\ \/ Len(Rem(a, b)) = 0
                   \/ Len(Rem(a, b)) >= 2 /\ IsSpace(Rem(a, b)[1])
            cands == {ab \in (1..w) \X (1..Len(rest)) : Ok(ab[1], ab[2])}
        IN  IF cands = {} THEN None
            ELSE
                \* \s+ is greedy and (.+?) is lazy
                LET a == CHOOSE x \in {ab[1] : ab \in cands} :
                             \A ab \in cands : ab[1] <= x
                    b == CHOOSE y \in {ab[2] : ab \in {c \in cands : c[1] = a}} :
                             \A ab \in {c \in cands : c[1] = a} : y <= ab[2]
                    rem == Rem(a, b)
                    s == IF LeadingSpaces(rem) < Len(rem)
                         THEN LeadingSpaces(rem) ELSE Len(rem) - 1
                IN  Some([status |-> status,
                          path1 |-> SubSeq(rest, a + 1, a + b),
                          path2 |-> IF Len(rem) = 0 THEN NullPath
                                    ELSE SubSeq(rem, s + 1, Len(rem))])

\* A change with its first path as oldPath whatever the status
DiffChange_OldPathAlways(m) ==
    [status |-> m.status,
     oldPath |-> m.path1,
     newPath |-> IF m.path2 # NullPath THEN m.path2 ELSE m.path1]

\* The change parseDiffOutput builds from a matched line
DiffChange(m) ==
    [status |-> m.status,
     oldPath |-> IF m.status[1] = "D" \/ m.status[1] = "R" THEN m.path1 ELSE NullPath,
     newPath |-> IF m.status[1] = "A" \/ m.status[1] = "M" \/ m.status[1] = "R"
                 THEN (IF m.path2 # NullPath THEN m.path2 ELSE m.path1)
                 ELSE NullPath]

RECURSIVE ParseLines(_)
ParseLines(lines) ==
    IF Len(lines) = 0 THEN <<>>
    ELSE
        LET m == MatchDiffLine(lines[1])
            keep == /\ m # None
                    /\ \/ EndsWithFeature(DiffChange(m[1]).oldPath)
                       \/ EndsWithFeature(DiffChange(m[1]).newPath)
        IN  (IF keep THEN <<DiffChange(m[1])>> ELSE <<>>) \o ParseLines(Tail(lines))

\* parseDiffOutput, on the lines of git's output
parseDiffOutput(diffOutput) == ParseLines(TrimmedLines(diffOutput))

RECURSIVE AddedChanges(_)
AddedChanges(files) ==
    IF Len(files) = 0 THEN <<>>
    ELSE (IF EndsWithFeature(Trim(files[1]))
          THEN <<[status |-> <<"A">>, oldPath |-> NullPath, newPath |-> Trim(files[1])]>>
          ELSE <<>>) \o AddedChanges(Tail(files))

\* Every listed line as an Added change, whatever its extension
InitialChanges_Unfiltered(allFiles) ==
    [i \in 1..Len(allFiles) |->
        [status |-> <<"A">>, oldPath |-> NullPath, newPath |-> Trim(allFiles[i])]]

\* The initial-sync branch of featuresync: every tracked .feature file as an
\* Added change
InitialChanges(allFiles) == AddedChanges(allFiles)

----------------------------------------------------------------------------
(* The change processor *)

\* const oldPathForLookup = change.oldPath || change.newPath
OldPathForLookup(change) ==
    IF change.oldPath # NullPath THEN change.oldPath ELSE change.newPath

\* processChange asks git for the old version
FetchesOld(change, prevCommit) ==
    prevCommit # NullCommit /\ OldPathForLookup(change) # NullPath

\* The old half of processChange throws (git.show rejects or the parser throws)
OldFails(change, prevCommit, oldShow) ==
    /\ FetchesOld(change, prevCommit)
    /\ \/ oldShow.kind = "fetchError"
       \/ parseGherkinFile(oldShow, OldPathForLookup(change)).kind = "error"

\* processChange asks git for the new version
FetchesNew(change, prevCommit, oldShow) ==
    ~OldFails(change, prevCommit, oldShow) /\ change.newPath # NullPath

NewFails(change, prevCommit, oldShow, newShow) ==
    /\ FetchesNew(change, prevCommit, oldShow)
    /\ \/ newShow.kind = "fetchError"
       \/ parseGherkinFile(newShow, change.newPath).kind = "error"

\* A processChange that keeps a change whose content could not be read
processChange_NeverNull(change, prevCommit, oldShow, newShow) ==
    Some([status |-> change.status,
          oldPath |-> change.oldPath,
          newPath |-> change.newPath])

\* processChange: None for null, else Some(processed). oldShow and newShow are
\* what git.show answers for the old and the new version.
processChange(change, prevCommit, oldShow, newShow) ==
    LET processed == [status |-> change.status,
                      oldPath |-> change.oldPath,
                      newPath |-> change.newPath]
        oldParsed == parseGherkinFile(oldShow, OldPathForLookup(change))
        withOld ==
            IF FetchesOld(change, prevCommit) /\ oldParsed.kind = "doc"
            THEN processed @@
                 [oldFeatureHash |-> oldParsed.featureHash,
                  oldScenarioHashes |->
                      [i \in 1..Len(oldParsed.scenarios) |-> oldParsed.scenarios[i].hash],
                  oldScenarios |-> oldParsed.scenarios]
            ELSE processed
        newParsed == parseGherkinFile(newShow, change.newPath)
        withNew ==
            IF change.newPath # NullPath /\ newParsed.kind = "doc"
            THEN withOld @@
                 [feature |-> [hash |-> newParsed.featureHash,
                               title |-> newParsed.feature.name,
                               description |-> newParsed.feature.FeatureDescription,
                               background |-> newParsed.feature.background],
                  scenarios |-> newParsed.scenarios]
            ELSE withOld
    IN  IF OldFails(change, prevCommit, oldShow) THEN None
        ELSE IF NewFails(change, prevCommit, oldShow, newShow) THEN None
        ELSE Some(withNew)

----------------------------------------------------------------------------
(* The scenario matcher and the payload builder *)

Has(rec, field) == field \in DOMAIN rec

StatusR100 == <<"R", "1", "0", "0">>
StatusA == <<"A">>

\* A status test that takes every change for a rename
IsRename_Always(status) == TRUE

\* change.status.startsWith('R')
IsRename(status) == status[1] = "R"

\* payloadChange.feature
PayloadFeature(change, ids) ==
    LET withPrev ==
            IF IsRename(change.status) /\ Has(change, "oldFeatureHash")
            THEN change.feature @@ [prevHash |-> change.oldFeatureHash]
            ELSE change.feature
    IN  IF /\ Has(change, "oldFeatureHash")
           /\ change.oldFeatureHash \in DOMAIN ids.suites
           /\ ids.suites[change.oldFeatureHash].suiteId # 0
        THEN withPrev @@ [suiteId |-> ids.suites[change.oldFeatureHash].suiteId]
        ELSE withPrev

OldScenarioHashes(change) ==
    IF Has(change, "oldScenarioHashes") THEN change.oldScenarioHashes ELSE <<>>

OldScenarios(change) ==
    IF Has(change, "oldScenarios") THEN change.oldScenarios ELSE <<>>

\* new Map(oldScenarios.map(s => [s.title, s.hash])): a later entry replaces
\* an earlier one with the same title
OldTitleToHash(change) ==
    LET old == OldScenarios(change)
    IN  [t \in {old[i].title : i \in 1..Len(old)} |->
            old[CHOOSE i \in 1..Len(old) :
                    /\ old[i].title = t
                    /\ \A j \in 1..Len(old) : old[j].title = t => j <= i].hash]

\* A matcher that takes every new scenario for an unchanged one
MatchPrevHash_OwnHash(change, index) == Some(change.scenarios[index].hash)

\* MatchPrevHash without the equal-counts guard of the positional fallback
MatchPrevHash_NoCountGuard(change, index) ==
    LET scenario == change.scenarios[index]
    IN  IF scenario.hash \in Range(OldScenarioHashes(change)) THEN Some(scenario.hash)
        ELSE IF scenario.title \in DOMAIN OldTitleToHash(change)
             THEN Some(OldTitleToHash(change)[scenario.title])
        ELSE IF index <= Len(OldScenarioHashes(change))
             THEN Some(change.oldScenarioHashes[index])
        ELSE None

\* The three-tier choice of prevHash for the new scenario at index: None or
\* Some(hash)
MatchPrevHash(change, index) ==
    LET scenario == change.scenarios[index]
        oldHashesSet == Range(OldScenarioHashes(change))
        oldTitleToHash == OldTitleToHash(change)
        sameLengthAsOld == /\ Has(change, "oldScenarioHashes")
                           /\ Len(change.oldScenarioHashes) = Len(change.scenarios)
    IN  IF scenario.hash \in oldHashesSet THEN Some(scenario.hash)
        ELSE IF scenario.title \in DOMAIN oldTitleToHash
             THEN Some(oldTitleToHash[scenario.title])
        ELSE IF sameLengthAsOld THEN Some(change.oldScenarioHashes[index])
        ELSE None

\* A lookup that finds no case
HasCaseId_Never(prevHash, ids) == FALSE

\* Lines 519-520: caseInfo && caseInfo.caseId
HasCaseId(prevHash, ids) ==
    prevHash \in DOMAIN ids.cases /\ ids.cases[prevHash].caseId # 0

\* Steps attached whatever the status
ShouldIncludeSteps_Always(status) == TRUE

\* Line 530: change.status !== 'R100'
ShouldIncludeSteps(status) == status # StatusR100

\* One entry of payloadChange.scenarios for a new scenario
PayloadScenario(change, index, ids) ==
    LET scenario == change.scenarios[index]
        prev == MatchPrevHash(change, index)
        base == [hash |-> scenario.hash, title |-> scenario.title]
        withPrev == IF prev # None THEN base @@ [prevHash |-> prev[1]] ELSE base
        withCase ==
            IF prev # None /\ HasCaseId(prev[1], ids)
            THEN withPrev @@ [caseId |-> ids.cases[prev[1]].caseId]
            ELSE withPrev
        shouldIncludeSteps == ShouldIncludeSteps(change.status)
    IN  IF shouldIncludeSteps THEN withCase @@ [steps |-> scenario.steps] ELSE withCase

\* No marker at all
DeletionMarkers_None(oldHashList, claimed) == <<>>

\* A marker for every old hash, claimed or not
DeletionMarkers_All(oldHashList, claimed) ==
    [i \in 1..Len(oldHashList) |-> [prevHash |-> oldHashList[i], deleted |-> TRUE]]

\* The markers pushed for the old hashes no new scenario claims
RECURSIVE DeletionMarkers(_, _)
DeletionMarkers(oldHashList, claimed) ==
    IF Len(oldHashList) = 0 THEN <<>>
    ELSE (IF oldHashList[1] \notin claimed
          THEN <<[prevHash |-> oldHashList[1], deleted |-> TRUE]>>
          ELSE <<>>) \o DeletionMarkers(Tail(oldHashList), claimed)

\* ClaimedHashes without newPrevHashes
ClaimedHashes_NewOnly(mapped) == {mapped[i].hash : i \in 1..Len(mapped)}

\* newHashes and newPrevHashes: the hashes the new scenarios' entries carry
\* as hash or as prevHash
ClaimedHashes(mapped) ==
    {mapped[i].hash : i \in 1..Len(mapped)} \cup
    {mapped[i].prevHash : i \in {j \in 1..Len(mapped) : Has(mapped[j], "prevHash")}}

\* One entry of payload.changes
PayloadChange(change, ids) ==
    LET base == [status |-> change.status,
                 oldPath |-> change.oldPath,
                 newPath |-> change.newPath]
        withFeature ==
            IF Has(change, "feature")
            THEN base @@ [feature |-> PayloadFeature(change, ids)]
            ELSE base
        mapped ==
            IF Has(change, "scenarios")
            THEN [i \in 1..Len(change.scenarios) |-> PayloadScenario(change, i, ids)]
            ELSE <<>>
        marksDeletions ==
            Len(OldScenarioHashes(change)) > 0 /\ change.status # StatusA
        existingScenarios ==
            IF marksDeletions
            THEN mapped \o DeletionMarkers(change.oldScenarioHashes,
                                           ClaimedHashes(mapped))
            ELSE mapped
    IN  IF Has(change, "scenarios") \/ (marksDeletions /\ Len(existingScenarios) > 0)
        THEN withFeature @@ [scenarios |-> existingScenarios]
        ELSE withFeature

\* buildSyncPayload
buildSyncPayload(prevCommit, head, processed, ids) ==
    [prevCommit |-> prevCommit,
     headCommit |-> head,
     changes |-> [i \in 1..Len(processed) |-> PayloadChange(processed[i], ids)]]

----------------------------------------------------------------------------
(* What the collaborators can answer *)

StatusM == <<"M">>
StatusD == <<"D">>
StatusR90 == <<"R", "0", "9", "0">>

\* One record of git diff --name-status: status, a tab, one or two paths
DiffLine(status, path1, path2) ==
    status \o <<"\t">> \o path1 \o
    (IF path2 # NullPath THEN <<"\t">> \o path2 ELSE <<>>)

\* The records git diff can print for the i-th changed file
DiffRecords(i) ==
    {DiffLine(st, OldName(i), NullPath) : st \in {StatusA, StatusM, StatusD}}
    \cup {DiffLine(st, OldName(i), NewName(i)) : st \in {StatusR100, StatusR90}}
    \cup {DiffLine(StatusM, PathN, NullPath)}

\* git diff's output: at most maxChanges records and the empty line after the
\* last newline
DiffOutputs(maxChanges) ==
    {d \o << <<>> >> :
        d \in UNION {{x \in [1..n -> UNION {DiffRecords(i) : i \in 1..n}] :
                        \A i \in 1..n : x[i] \in DiffRecords(i)} : n \in 0..maxChanges}}

\* git ls-tree's output: at most maxChanges tracked paths and the empty line
\* after the last newline
LsTreeOutputs(maxChanges) ==
    {f \o << <<>> >> :
        f \in UNION {{x \in [1..n -> {OldName(i) : i \in 1..n} \cup {PathN}] :
                        \A i \in 1..n : x[i] \in {OldName(i), PathN}} :
                     n \in 0..maxChanges}}

\* What git show <prev>:<path> can answer for a change: a path that is Added
\* between the two revisions does not exist at the previous one
OldShows(change, prevCommit, maxScen) ==
    IF ~FetchesOld(change, prevCommit) THEN {FetchError}
    ELSE IF change.status = StatusA THEN {FetchError}
    ELSE Contents(maxScen) \cup {FetchError}

\* What git show HEAD:<path> can answer: a 100% rename has the old content
NewShows(change, prevCommit, oldShow, maxScen) ==
    IF ~FetchesNew(change, prevCommit, oldShow) THEN {FetchError}
    ELSE IF change.status = StatusR100 /\ FetchesOld(change, prevCommit) THEN {oldShow}
    ELSE Contents(maxScen) \cup {FetchError}

\* The hashes of a resolve-ids request
RequestedHashes(hashes) == Range(hashes.features) \cup Range(hashes.scenarios)

\* The first position of x in s
IndexOf(s, x) == CHOOSE i \in 1..Len(s) : s[i] = x /\ \A j \in 1..(i - 1) : s[j] # x

\* results of a resolve-ids response in which the service knows the hashes
\* in known
IdentityMap(hashes, known) ==
    [suites |-> [h \in Range(hashes.features) \cap known |->
                    [suiteId |-> 100 + IndexOf(hashes.features, h)]],
     cases |-> [h \in Range(hashes.scenarios) \cap known |->
                    [caseId |-> 1000 + IndexOf(hashes.scenarios, h)]]]

\* The sets of hashes the service may know: none, all, or only the first
\* scenario hash of the request
KnownSets(hashes) ==
    {{}, RequestedHashes(hashes)} \cup
    (IF Len(hashes.scenarios) > 0 THEN {{hashes.scenarios[1]}} ELSE {})

EmptyIds == [suites |-> <<>>, cases |-> <<>>]

----------------------------------------------------------------------------
(* The orchestrator: featuresync *)

GetSyncState == [method |-> "GET", endpoint |-> "/bdd/sync"]
PostResolveIds(hashes) ==
    [method |-> "POST", endpoint |-> "/bdd/resolve-ids",
     body |-> (IF Len(hashes.features) > 0
               THEN [features |-> hashes.features] ELSE <<>>) @@
              (IF Len(hashes.scenarios) > 0
               THEN [scenarios |-> hashes.scenarios] ELSE <<>>)]
PostSync(body) == [method |-> "POST", endpoint |-> "/bdd/sync", body |-> body]

\* The index in changes of the change processed next
Cursor == Len(processedChanges) + Len(dropped) + 1

\* A failure that exits with status 0
Fail_ExitZero ==
    /\ pc' = "Failed"
    /\ exitCode' = 0

\* process.exit(1), from the checks at the top or from the catch block
Fail ==
    /\ pc' = "Failed"
    /\ exitCode' = 1

\* No function is applied on its own
NoProbe == [fn |-> "none"]

\* featuresync has not started
NotStarted ==
    /\ pc = "Idle"
    /\ lastSyncedCommit = NullCommit
    /\ headCommit = NullCommit
    /\ changes = <<>>
    /\ processedChanges = <<>>
    /\ oldHashes = [features |-> <<>>, scenarios |-> <<>>]
    /\ dropped = <<>>
    /\ resolvedIds = EmptyIds
    /\ payload = None
    /\ calls = <<>>
    /\ responses = <<>>
    /\ gitCalls = <<>>
    /\ reported = FALSE
    /\ exitCode = 0

InitWith(lim) ==
    /\ NotStarted
    /\ token \in BOOLEAN
    /\ probe = NoProbe
    /\ limits = lim

\* Whole runs over diffs of up to MaxChanges small files
Init == InitWith([maxChanges |-> MaxChanges, maxScen |-> MaxScenRun])

\* A token check that lets every run through
TokenMissing_Never(t) == FALSE

\* Line 33: if (!token)
TokenMissing(t) == ~t

\* Lines 30-57: the token and repository checks, the advisory status query,
\* and the GET that fetchSyncState sends
Start ==
    /\ pc = "Idle"
    /\ \E isRepo \in BOOLEAN :
        IF TokenMissing(token)
        THEN Fail /\ UNCHANGED <<gitCalls, calls>>
        ELSE IF ~isRepo
        THEN /\ Fail
             /\ gitCalls' = <<[op |-> "checkIsRepo", result |-> FALSE]>>
             /\ UNCHANGED calls
        ELSE /\ pc' = "FetchingState"
             /\ gitCalls' = <<[op |-> "checkIsRepo", result |-> TRUE],
                              [op |-> "status"]>>
             /\ calls' = <<GetSyncState>>
             /\ UNCHANGED exitCode
    /\ UNCHANGED <<token, probe, limits, lastSyncedCommit, headCommit, changes, processedChanges,
                   oldHashes, dropped, resolvedIds, payload, responses, reported>>

\* Lines 57-58 and 184-205: the sync state arrives, or the call fails
RecvSyncState ==
    /\ pc = "FetchingState"
    /\ \E ok \in BOOLEAN, commit \in Commits \cup {NullCommit} :
        IF ok
        THEN /\ lastSyncedCommit' = commit
             /\ responses' = Append(responses, "ok")
             /\ pc' = "ComparingRevisions"
             /\ UNCHANGED exitCode
        ELSE /\ Fail
             /\ responses' = Append(responses, "fail")
             /\ UNCHANGED lastSyncedCommit
    /\ UNCHANGED <<token, probe, limits, headCommit, changes, processedChanges, oldHashes, dropped,
                   resolvedIds, payload, calls, gitCalls, reported>>

\* The up-to-date check never taken
UpToDate_Never(prevCommit, head) == FALSE

\* Line 64: lastSyncedCommit === headCommit
UpToDate(prevCommit, head) == prevCommit = head

\* Lines 61-106: HEAD, the up-to-date check, the diff or the file listing,
\* and the no-changes check
CompareRevisions ==
    /\ pc = "ComparingRevisions"
    /\ \E head \in HeadCommits, revparseOk, listOk \in BOOLEAN,
          diffResult \in DiffOutputs(limits.maxChanges),
          allFiles \in LsTreeOutputs(limits.maxChanges) :
        LET found == IF lastSyncedCommit # NullCommit
                     THEN parseDiffOutput(diffResult)
                     ELSE InitialChanges(allFiles)
            query == IF lastSyncedCommit # NullCommit
                     THEN [op |-> "diff", from |-> lastSyncedCommit,
                           out |-> IF listOk THEN diffResult ELSE <<>>]
                     ELSE [op |-> "ls-tree",
                           out |-> IF listOk THEN allFiles ELSE <<>>]
        IN  IF ~revparseOk
            THEN /\ Fail
                 /\ gitCalls' = Append(gitCalls, [op |-> "revparse"])
                 /\ UNCHANGED <<headCommit, changes>>
            ELSE IF UpToDate(lastSyncedCommit, head)
            THEN /\ pc' = "NoOp"
                 /\ headCommit' = head
                 /\ gitCalls' = Append(gitCalls, [op |-> "revparse"])
                 /\ UNCHANGED <<changes, exitCode>>
            ELSE IF ~listOk
            THEN /\ Fail
                 /\ headCommit' = head
                 /\ gitCalls' = gitCalls \o <<[op |-> "revparse"], query>>
                 /\ UNCHANGED changes
            ELSE /\ headCommit' = head
                 /\ gitCalls' = gitCalls \o <<[op |-> "revparse"], query>>
                 /\ changes' = found
                 /\ pc' = IF Len(found) = 0 THEN "NoOp" ELSE "ProcessingChanges"
                 /\ UNCHANGED exitCode
    /\ UNCHANGED <<token, probe, limits, lastSyncedCommit, processedChanges, oldHashes, dropped,
                   resolvedIds, payload, calls, responses, reported>>

\* The git show queries processChange makes for a change, each with how it
\* ended: "fetchError", or the kind of content it gave
ShowCalls(change, prevCommit, oldShow, newShow) ==
    (IF FetchesOld(change, prevCommit)
     THEN <<[op |-> "show", rev |-> prevCommit, path |-> OldPathForLookup(change),
             result |-> oldShow.kind]>>
     ELSE <<>>) \o
    (IF FetchesNew(change, prevCommit, oldShow)
     THEN <<[op |-> "show", rev |-> "HEAD", path |-> change.newPath,
             result |-> newShow.kind]>>
     ELSE <<>>)

\* Old hashes of the last processed change only
CollectOldHashes_LastOnly(hashes, processed) ==
    [features |-> IF Has(processed, "oldFeatureHash")
                  THEN <<processed.oldFeatureHash>> ELSE <<>>,
     scenarios |-> OldScenarioHashes(processed)]

\* Lines 119-125: the old hashes of a processed change are pushed to oldHashes
CollectOldHashes(hashes, processed) ==
    [features |-> hashes.features \o
                  (IF Has(processed, "oldFeatureHash")
                   THEN <<processed.oldFeatureHash>> ELSE <<>>),
     scenarios |-> hashes.scenarios \o OldScenarioHashes(processed)]

\* A loop that ends after its first turn
LoopDone_First(cursor, n) == TRUE

\* Line 113: the loop over changes ends after the last one
LoopDone(cursor, n) == cursor = n

\* Lines 113-126: one turn of the loop over changes
ProcessNext ==
    /\ pc = "ProcessingChanges"
    /\ LET change == changes[Cursor]
       IN  \E oldShow \in OldShows(change, lastSyncedCommit, limits.maxScen) :
           \E newShow \in NewShows(change, lastSyncedCommit, oldShow, limits.maxScen) :
             LET processed == processChange(change, lastSyncedCommit, oldShow, newShow)
             IN  /\ gitCalls' = gitCalls \o
                                ShowCalls(change, lastSyncedCommit, oldShow, newShow)
                 /\ IF processed # None
                    THEN /\ processedChanges' = Append(processedChanges, processed[1])
                         /\ oldHashes' = CollectOldHashes(oldHashes, processed[1])
                         /\ UNCHANGED dropped
                    ELSE /\ dropped' = Append(dropped, Cursor)
                         /\ UNCHANGED <<processedChanges, oldHashes>>
                 /\ pc' = IF LoopDone(Cursor, Len(changes))
                          THEN "ResolvingIdentities" ELSE "ProcessingChanges"
    /\ UNCHANGED <<token, probe, limits, lastSyncedCommit, headCommit, changes, resolvedIds, payload,
                   calls, responses, reported, exitCode>>

\* A resolveIds that never sends its request
NoOldHashes_Always(hashes) == TRUE

\* Line 399: hashes.features.length === 0 && hashes.scenarios.length === 0
NoOldHashes(hashes) == Len(hashes.features) = 0 /\ Len(hashes.scenarios) = 0

\* Lines 135 and 398-419: resolveIds answers at once for no hashes, and
\* otherwise sends its request
ResolveIdsCall ==
    /\ pc = "ResolvingIdentities"
    /\ IF NoOldHashes(oldHashes)
       THEN /\ resolvedIds' = EmptyIds
            /\ pc' = "BuildingPayload"
            /\ UNCHANGED calls
       ELSE /\ calls' = Append(calls, PostResolveIds(oldHashes))
            /\ pc' = "AwaitingIdentities"
            /\ UNCHANGED resolvedIds
    /\ UNCHANGED <<token, probe, limits, lastSyncedCommit, headCommit, changes, processedChanges,
                   oldHashes, dropped, payload, responses, gitCalls, reported, exitCode>>

\* Lines 421-435: the resolve-ids response arrives, or the call fails
RecvResolveIds ==
    /\ pc = "AwaitingIdentities"
    /\ \E ok \in BOOLEAN, known \in KnownSets(oldHashes) :
        IF ok
        THEN /\ resolvedIds' = IdentityMap(oldHashes, known)
             /\ responses' = Append(responses, "ok")
             /\ pc' = "BuildingPayload"
             /\ UNCHANGED exitCode
        ELSE /\ Fail
             /\ responses' = Append(responses, "fail")
             /\ UNCHANGED resolvedIds
    /\ UNCHANGED <<token, probe, limits, lastSyncedCommit, headCommit, changes, processedChanges,
                   oldHashes, dropped, payload, calls, gitCalls, reported>>

\* A run that returns without submitting when no change was processed
BuildAndSubmit_SkipEmpty ==
    /\ pc = "BuildingPayload"
    /\ LET built == buildSyncPayload(lastSyncedCommit, headCommit,
                                     processedChanges, resolvedIds)
       IN  IF Len(processedChanges) = 0
           THEN pc' = "NoOp" /\ UNCHANGED <<payload, calls>>
           ELSE /\ payload' = Some(built)
                /\ calls' = Append(calls, PostSync(built))
                /\ pc' = "Submitting"
    /\ UNCHANGED <<token, probe, limits, lastSyncedCommit, headCommit, changes, processedChanges,
                   oldHashes, dropped, resolvedIds, responses, gitCalls, reported,
                   exitCode>>

\* Lines 154-169 and 591-599: the payload is built and posted
BuildAndSubmit ==
    /\ pc = "BuildingPayload"
    /\ LET built == buildSyncPayload(lastSyncedCommit, headCommit,
                                     processedChanges, resolvedIds)
       IN  /\ payload' = Some(built)
           /\ calls' = Append(calls, PostSync(built))
    /\ pc' = "Submitting"
    /\ UNCHANGED <<token, probe, limits, lastSyncedCommit, headCommit, changes, processedChanges,
                   oldHashes, dropped, resolvedIds, responses, gitCalls, reported,
                   exitCode>>

\* A submit call whose promise never settles
RecvSubmit_Never ==
    /\ pc = "Submitting"
    /\ UNCHANGED vars

\* Lines 169-178 and 601-620: the sync response arrives and the results are
\* displayed, or the call fails
RecvSubmit ==
    /\ pc = "Submitting"
    /\ \E ok \in BOOLEAN :
        IF ok
        THEN /\ reported' = TRUE
             /\ responses' = Append(responses, "ok")
             /\ pc' = "ReportingResults"
             /\ UNCHANGED exitCode
        ELSE /\ Fail
             /\ responses' = Append(responses, "fail")
             /\ UNCHANGED reported
    /\ UNCHANGED <<token, probe, limits, lastSyncedCommit, headCommit, changes, processedChanges,
                   oldHashes, dropped, resolvedIds, payload, calls, gitCalls>>

Next ==
    \/ Start
    \/ RecvSyncState
    \/ CompareRevisions
    \/ ProcessNext
    \/ ResolveIdsCall
    \/ RecvResolveIds
    \/ BuildAndSubmit
    \/ RecvSubmit

Spec == Init /\ [][Next]_vars

\* Whole runs over diffs of up to MaxChanges files without scenarios (and the
\* one bare file), in which every call to Git and to the service returns or
\* fails
FairInit == InitWith([maxChanges |-> MaxChanges, maxScen |-> 0])

FairSpec == FairInit /\ [][Next]_vars /\ WF_vars(Next)

\* Runs over a diff of one change to a file of up to MaxScenMatch scenarios
MatchInit == InitWith([maxChanges |-> 1, maxScen |-> MaxScenMatch])

MatchSpec == MatchInit /\ [][Next]_vars

----------------------------------------------------------------------------
(* Properties *)

\* buildSyncPayload has run
Built == payload # None

\* The entries of a payload change's scenario list
Entries(payloadChange) ==
    IF Has(payloadChange, "scenarios") THEN payloadChange.scenarios ELSE <<>>

IsMarker(entry) == Has(entry, "deleted")

\* The deletion markers of a payload change, in order
Markers(payloadChange) == SelectSeq(Entries(payloadChange), IsMarker)

NewScenarios(change) == IF Has(change, "scenarios") THEN change.scenarios ELSE <<>>

OldHashSet(change) == {OldScenarios(change)[j].hash : j \in 1..Len(OldScenarios(change))}
OldTitleSet(change) == {OldScenarios(change)[j].title : j \in 1..Len(OldScenarios(change))}
NewHashSet(change) == {NewScenarios(change)[i].hash : i \in 1..Len(NewScenarios(change))}
NewTitleSet(change) == {NewScenarios(change)[i].title : i \in 1..Len(NewScenarios(change))}

\* The old version of the file was extracted
HasOldVersion(change) == Has(change, "oldScenarios")

\* How new scenario i relates to the old scenarios: by "hash", else by
\* "title", else "new"
MatchKind(change, i) ==
    IF change.scenarios[i].hash \in OldHashSet(change) THEN "hash"
    ELSE IF change.scenarios[i].title \in OldTitleSet(change) THEN "title"
    ELSE "new"

HasAllKinds(change) ==
    {MatchKind(change, i) : i \in 1..Len(NewScenarios(change))} = {"hash", "title", "new"}

\* What the claim says of the entry of new scenario i; with fallback, a "new"
\* scenario of a file with as many old as new scenarios carries the old hash
\* at its index
PriorityHolds(change, entry, i, fallback) ==
    LET old == OldScenarios(change)
    IN  CASE MatchKind(change, i) = "hash" ->
                Has(entry, "prevHash") /\ entry.prevHash = change.scenarios[i].hash
          [] MatchKind(change, i) = "title" ->
                /\ Has(entry, "prevHash")
                /\ \E j \in 1..Len(old) :
                      /\ old[j].title = change.scenarios[i].title
                      /\ old[j].hash = entry.prevHash
          [] OTHER ->
                IF fallback /\ Len(old) = Len(change.scenarios)
                THEN Has(entry, "prevHash") /\ entry.prevHash = old[i].hash
                ELSE ~Has(entry, "prevHash")

PriorityHoldsEverywhere(fallback) ==
    Built =>
        \A c \in 1..Len(processedChanges) :
            LET change == processedChanges[c]
            IN  (HasOldVersion(change) /\ HasAllKinds(change)) =>
                    \A i \in 1..Len(change.scenarios) :
                        PriorityHolds(change, payload[1].changes[c].scenarios[i],
                                      i, fallback)

\* C1 as stated: in a file whose new version has a hash-matched scenario, a
\* title-matched scenario and a scenario matching nothing, the first carries
\* its own hash as prevHash, the second the hash of the old scenario with its
\* title, and the third no prevHash, whatever the old scenario list is.
C1_Original == PriorityHoldsEverywhere(FALSE)

\* C1 (amended): as above, except that the scenario matching nothing has no
\* prevHash only when the old and new scenario counts differ; when they are
\* equal it carries the old scenario hash at its own index.
C1_MatchPriority == PriorityHoldsEverywhere(TRUE)

C1_Witness ==
    /\ Built
    /\ \E c \in 1..Len(processedChanges) :
          /\ HasOldVersion(processedChanges[c])
          /\ HasAllKinds(processedChanges[c])
          /\ Len(OldScenarios(processedChanges[c])) # Len(processedChanges[c].scenarios)
          /\ \E e \in Range(Entries(payload[1].changes[c])) : ~Has(e, "prevHash")

\* The old scenarios whose hash and title both disappear
Disappeared(change) ==
    {j \in 1..Len(OldScenarios(change)) :
        /\ OldScenarios(change)[j].hash \notin NewHashSet(change)
        /\ OldScenarios(change)[j].title \notin NewTitleSet(change)}

DeletionPremise(change) ==
    /\ change.status # StatusA
    /\ Len(OldScenarios(change)) = 3
    /\ Len(NewScenarios(change)) = 2
    /\ Cardinality(Disappeared(change)) = 1

\* Old scenario j is matched by a new scenario: by hash, or as the old
\* scenario the title of a new scenario without an old hash leads to
Matched(change, j) ==
    LET old == OldScenarios(change)
        new == NewScenarios(change)
    IN  \/ old[j].hash \in NewHashSet(change)
        \/ \E i \in 1..Len(new), k \in 1..Len(old) :
              /\ new[i].hash \notin OldHashSet(change)
              /\ old[k].title = new[i].title
              /\ \A l \in (k + 1)..Len(old) : old[l].title # new[i].title
              /\ old[k].hash = old[j].hash

OneMarkerFor(change, payloadChange) ==
    LET gone == CHOOSE j \in Disappeared(change) : TRUE
    IN  /\ Len(Markers(payloadChange)) = 1
        /\ Markers(payloadChange)[1] =
              [prevHash |-> OldScenarios(change)[gone].hash, deleted |-> TRUE]

\* C2 as stated: a change that is not an Addition, with 3 old and 2 new
\* scenarios, in which exactly one old scenario has neither its hash nor its
\* title among the new scenarios, has exactly one deletion marker, and it
\* carries that old scenario's hash.
C2_Original ==
    Built =>
        \A c \in 1..Len(processedChanges) :
            DeletionPremise(processedChanges[c]) =>
                OneMarkerFor(processedChanges[c], payload[1].changes[c])

\* C2 (amended): the same, when moreover no other old scenario has the hash
\* of the one that disappeared and each other old scenario is matched by a
\* new scenario.
C2_DeletionDetection ==
    Built =>
        \A c \in 1..Len(processedChanges) :
            LET change == processedChanges[c]
                old == OldScenarios(change)
            IN  (/\ DeletionPremise(change)
                 /\ \A j \in 1..Len(old) :
                       j \notin Disappeared(change) =>
                           /\ Matched(change, j)
                           /\ \A g \in Disappeared(change) : old[j].hash # old[g].hash)
                => OneMarkerFor(change, payload[1].changes[c])

\* A rename in which both other old scenarios are matched by title only
C2_Witness ==
    /\ Built
    /\ \E c \in 1..Len(processedChanges) :
          LET change == processedChanges[c]
              old == OldScenarios(change)
          IN  /\ DeletionPremise(change)
              /\ \A j \in 1..Len(old) :
                    j \notin Disappeared(change) =>
                        /\ Matched(change, j)
                        /\ old[j].hash \notin NewHashSet(change)
                        /\ \A g \in Disappeared(change) : old[j].hash # old[g].hash
              /\ Len(Markers(payload[1].changes[c])) = 1

\* One file was renamed with identical content, and it holds a Feature
RenamedUnchanged ==
    /\ Len(changes) = 1
    /\ changes[1].status = StatusR100
    /\ Len(processedChanges) = 1
    /\ Has(processedChanges[1], "feature")

\* C3: the payload of a rename without edit has exactly one change, with
\* status R100 and both paths; its feature has a prevHash other than its hash;
\* every scenario entry has a prevHash other than its hash, no steps, and the
\* caseId the identity map gives for its prevHash, when it gives one.
C3_RenameWithoutEdit ==
    (Built /\ RenamedUnchanged) =>
        /\ Len(payload[1].changes) = 1
        /\ LET ch == payload[1].changes[1]
           IN  /\ ch.status = <<"R", "1", "0", "0">>
               /\ ch.oldPath = OldName(1)
               /\ ch.newPath = NewName(1)
               /\ Has(ch, "feature")
               /\ Has(ch.feature, "prevHash")
               /\ ch.feature.prevHash # ch.feature.hash
               /\ \A e \in Range(Entries(ch)) :
                     /\ Has(e, "prevHash")
                     /\ Has(e, "hash") => e.prevHash # e.hash
                     /\ ~Has(e, "steps")
                     /\ e.prevHash \in DOMAIN resolvedIds.cases =>
                           /\ Has(e, "caseId")
                           /\ e.caseId = resolvedIds.cases[e.prevHash].caseId


\* The positions in gitCalls of the git show queries for path at rev
ShowsAt(rev, path) ==
    {i \in 1..Len(gitCalls) :
        /\ gitCalls[i].op = "show"
        /\ gitCalls[i].rev = rev
        /\ gitCalls[i].path = path}

\* A git show query that gave no content the parser accepts
ShowFailed(i) == gitCalls[i].result \in {"fetchError", "bad"}

\* The changes the loop has handled so far
Handled == 1..(Cursor - 1)

\* The service reported a last-synced revision
RegularSync == Len(responses) >= 1 /\ responses[1] = "ok" /\ lastSyncedCommit # NullCommit

\* The service reported no last-synced revision
InitialSync == Len(responses) >= 1 /\ responses[1] = "ok" /\ lastSyncedCommit = NullCommit

\* C4: in a regular sync, for a change with status A and no oldPath,
\* processChange fetches nothing at the prior revision and, unless the content
\* at HEAD cannot be read, returns a ProcessedChange without old hashes, so
\* that the payload has a change with status A for the file.
C4_AddedFileRegularSync ==
    RegularSync =>
        \A k \in Handled :
            (changes[k].status = StatusA /\ changes[k].oldPath = NullPath) =>
                LET path == changes[k].newPath
                    headFails == \E i \in ShowsAt("HEAD", path) : ShowFailed(i)
                IN  /\ ShowsAt(lastSyncedCommit, path) = {}
                    /\ ~headFails =>
                          /\ k \notin Range(dropped)
                          /\ \E c \in 1..Len(processedChanges) :
                                /\ processedChanges[c].newPath = path
                                /\ ~Has(processedChanges[c], "oldFeatureHash")
                                /\ ~Has(processedChanges[c], "oldScenarioHashes")
                          /\ Built =>
                                \E c \in 1..Len(payload[1].changes) :
                                    /\ payload[1].changes[c].status = StatusA
                                    /\ payload[1].changes[c].newPath = path

\* The successful git ls-tree queries
Listings == {i \in 1..Len(gitCalls) : gitCalls[i].op = "ls-tree" /\ gitCalls[i].out # <<>>}

\* The run returned: nothing to sync, or the results were displayed
Returned == pc \in {"NoOp", "ReportingResults"}

\* What C5 says of the changes and the requests of an initial sync, apart
\* from the number of requests of a run that returned
InitialSyncShape ==
    /\ \A i \in Listings :
          LET out == gitCalls[i].out
          IN  /\ \A path \in Range(out) :
                    EndsWithFeature(path) =>
                        \E c \in 1..Len(changes) :
                            changes[c] = [status |-> <<"A">>, oldPath |-> NullPath,
                                          newPath |-> path]
              /\ \A c \in 1..Len(changes) :
                    /\ changes[c].status = <<"A">>
                    /\ changes[c].oldPath = NullPath
                    /\ changes[c].newPath \in Range(out)
                    /\ EndsWithFeature(changes[c].newPath)
              /\ Len(changes) = Cardinality({j \in 1..Len(out) : EndsWithFeature(out[j])})
    /\ \A i \in 1..Len(calls) : calls[i].endpoint # "/bdd/resolve-ids"
    /\ Len(calls) \in {1, 2}
    /\ calls[1] = [method |-> "GET", endpoint |-> "/bdd/sync"]
    /\ Len(calls) = 2 =>
          /\ calls[2].method = "POST"
          /\ calls[2].endpoint = "/bdd/sync"
          /\ calls[2].body.prevCommit = NullCommit
          /\ calls[2].body.headCommit = headCommit
          /\ headCommit \in HeadCommits

\* C5 as stated: in an initial sync every tracked .feature file becomes a
\* change with status A and oldPath null, no resolve-ids request is sent, and
\* the run makes exactly two remote calls: GET sync state, then POST sync with
\* prevCommit null and headCommit = HEAD.
C5_Original ==
    InitialSync =>
        /\ InitialSyncShape
        /\ Returned => Len(calls) = 2

\* C5 (amended): the same, with exactly two remote calls when at least one
\* tracked file ends in .feature; with none, the run returns after the GET.
C5_InitialSync ==
    InitialSync =>
        /\ InitialSyncShape
        /\ (Returned /\ Len(changes) > 0) => Len(calls) = 2
        /\ (Returned /\ Len(changes) = 0) => Len(calls) = 1

\* An initial sync of a repository with a spec file and another file, done
C5_Witness ==
    /\ InitialSync
    /\ pc = "ReportingResults"
    /\ \E i \in Listings : PathN \in Range(gitCalls[i].out)
    /\ Len(changes) > 0
    /\ Len(calls) = 2


\* Method and endpoint of the requests sent so far, in order
Requests == [i \in 1..Len(calls) |-> <<calls[i].method, calls[i].endpoint>>]

ReqGetState == <<"GET", "/bdd/sync">>
ReqResolve == <<"POST", "/bdd/resolve-ids">>
ReqSubmit == <<"POST", "/bdd/sync">>

\* How many times a request was sent
TimesSent(req) == Cardinality({i \in 1..Len(calls) : Requests[i] = req})

\* Some processed change has old hashes
SomeOldHashes ==
    \E c \in 1..Len(processedChanges) :
        \/ Has(processedChanges[c], "oldFeatureHash")
        \/ /\ Has(processedChanges[c], "oldScenarioHashes")
           /\ Len(processedChanges[c].oldScenarioHashes) > 0

\* C6: a regular sync with a processed change with old hashes and no failure
\* makes exactly three requests: GET sync state, POST resolve-ids, POST sync;
\* resolve-ids is never sent before the sync state is received, nor the sync
\* request before the resolve-ids response is received.
C6_RemoteCallOrder ==
    /\ (RegularSync /\ SomeOldHashes /\ pc = "ReportingResults") =>
          Requests = <<ReqGetState, ReqResolve, ReqSubmit>>
    /\ \A i \in 1..Len(calls) :
          /\ Requests[i] = ReqResolve =>
                /\ i = 2 /\ Requests[1] = ReqGetState
                /\ Len(responses) >= 1 /\ responses[1] = "ok"
          /\ (Requests[i] = ReqSubmit /\ ReqResolve \in Range(Requests)) =>
                /\ i = 3 /\ Requests[2] = ReqResolve
                /\ Len(responses) >= 2 /\ responses[2] = "ok"

\* A regular sync that resolved identities, done
C6_Witness ==
    /\ RegularSync
    /\ SomeOldHashes
    /\ pc = "ReportingResults"
    /\ Len(calls) = 3
    /\ resolvedIds.cases # <<>>

\* The git queries that list changes or files
ListQueries == {i \in 1..Len(gitCalls) : gitCalls[i].op \in {"diff", "ls-tree"}}

\* The successful git diff queries whose output names no .feature path
DiffsWithoutSpecFile ==
    {i \in 1..Len(gitCalls) :
        /\ gitCalls[i].op = "diff"
        /\ gitCalls[i].out # <<>>
        /\ \A line \in Range(gitCalls[i].out) : ".feature" \notin Range(line)}

\* C7: a run in which the last-synced revision is HEAD ends in NoOp without
\* computing a diff and without a resolve-ids or sync request; so does,
\* without those requests, a run whose diff has no spec-file change.
C7_NoOpIdempotence ==
    /\ (RegularSync /\ headCommit # NullCommit /\ lastSyncedCommit = headCommit) =>
          /\ pc = "NoOp"
          /\ ListQueries = {}
          /\ changes = <<>>
          /\ Requests = <<ReqGetState>>
          /\ payload = None
          /\ exitCode = 0
    /\ DiffsWithoutSpecFile # {} =>
          /\ pc = "NoOp"
          /\ changes = <<>>
          /\ Requests = <<ReqGetState>>
          /\ payload = None
          /\ exitCode = 0

\* The service's last-synced revision is HEAD, and the run has compared them
C7_Witness ==
    /\ RegularSync
    /\ lastSyncedCommit = headCommit
    /\ pc = "NoOp"

\* A diff of changes to other files only ended the run
C7_WitnessDiff ==
    /\ pc = "NoOp"
    /\ \E i \in DiffsWithoutSpecFile : Len(gitCalls[i].out) > 1


\* The git show queries processChange made for the k-th change
ShowsOf(k) ==
    {i \in 1..Len(gitCalls) :
        /\ gitCalls[i].op = "show"
        /\ gitCalls[i].path # NullPath
        /\ gitCalls[i].path \in {changes[k].oldPath, changes[k].newPath}}

\* The k-th change could not be fetched or parsed
FailedFile(k) == \E i \in ShowsOf(k) : ShowFailed(i)

\* The indices of the changes that were fetched and parsed, in order
RECURSIVE Survivors(_)
Survivors(k) ==
    IF k = 0 THEN <<>>
    ELSE Survivors(k - 1) \o (IF FailedFile(k) THEN <<>> ELSE <<k>>)

\* C8: a change whose content cannot be fetched or parsed is absent from the
\* payload, every other change is present in it, and the run does not fail
\* because of it.
C8_PerFileFailuresAbsorbed ==
    /\ \A k \in Handled : FailedFile(k) <=> k \in Range(dropped)
    /\ Built =>
          LET kept == Survivors(Len(changes))
              sent == payload[1].changes
          IN  /\ Len(sent) = Len(kept)
              /\ \A c \in 1..Len(sent) :
                    /\ sent[c].status = changes[kept[c]].status
                    /\ sent[c].oldPath = changes[kept[c]].oldPath
                    /\ sent[c].newPath = changes[kept[c]].newPath
    /\ pc \in {"ProcessingChanges", "ResolvingIdentities"} => exitCode = 0
    /\ (pc = "Failed" /\ dropped # <<>>) =>
          /\ Len(responses) = Len(calls)
          /\ responses[Len(responses)] = "fail"

\* One of two changes was dropped, the other was submitted, and the run ended
\* well
C8_Witness ==
    /\ pc = "ReportingResults"
    /\ Len(dropped) = 1
    /\ Len(processedChanges) = 1
    /\ Len(payload[1].changes) = 1
    /\ exitCode = 0

\* C9: a fetch-sync-state, resolve-ids or submit call that fails ends the run
\* in Failed with a non-zero exit; after a failed fetch-sync-state or
\* resolve-ids call no submit request is sent, and after a failed submit no
\* results are reported.
C9_RemoteErrorsFatal ==
    \A i \in 1..Len(responses) :
        responses[i] = "fail" =>
            /\ pc = "Failed"
            /\ exitCode # 0
            /\ i = Len(responses)
            /\ Len(calls) = i
            /\ Requests[i] # ReqSubmit => ReqSubmit \notin Range(Requests)
            /\ ~reported

\* The resolve-ids call failed
C9_Witness ==
    /\ pc = "Failed"
    /\ Len(calls) = 2
    /\ Requests[2] = ReqResolve
    /\ responses = <<"ok", "fail">>

\* C10: each of the three remote calls is issued at most once; the submit
\* request is sent only after every classified change has been processed and
\* identity resolution has returned, and it carries the whole delta.
C10_NoRetryNoPartial ==
    /\ TimesSent(ReqGetState) <= 1
    /\ TimesSent(ReqResolve) <= 1
    /\ TimesSent(ReqSubmit) <= 1
    /\ Range(Requests) \subseteq {ReqGetState, ReqResolve, ReqSubmit}
    /\ \A i \in 1..Len(calls) :
          Requests[i] = ReqSubmit =>
              /\ Cursor = Len(changes) + 1
              /\ ReqResolve \in Range(Requests) =>
                    Len(responses) >= 2 /\ responses[2] = "ok"
              /\ Len(calls[i].body.changes) = Len(processedChanges)
              /\ Len(processedChanges) + Len(dropped) = Len(changes)
              /\ \A c \in 1..Len(processedChanges) :
                    calls[i].body.changes[c].newPath = processedChanges[c].newPath
                    /\ calls[i].body.changes[c].oldPath = processedChanges[c].oldPath

\* A delta of two changes was submitted after identity resolution
C10_Witness ==
    /\ pc = "ReportingResults"
    /\ Len(changes) = 2
    /\ Len(processedChanges) = 2
    /\ Requests = <<ReqGetState, ReqResolve, ReqSubmit>>


\* The repository check answered that the directory is no Git repository
NotARepository ==
    \E i \in 1..Len(gitCalls) : gitCalls[i].op = "checkIsRepo" /\ ~gitCalls[i].result

\* C11: when the token is missing from the environment, or the directory is
\* not a Git repository, the run exits non-zero without sending a request to
\* the service and without computing a diff.
C11_ConfigErrorsFatal ==
    /\ (~token /\ pc # "Idle") =>
          /\ pc = "Failed"
          /\ exitCode # 0
          /\ calls = <<>>
          /\ gitCalls = <<>>
    /\ NotARepository =>
          /\ pc = "Failed"
          /\ exitCode # 0
          /\ calls = <<>>
          /\ ListQueries = {}
          /\ \A i \in 1..Len(gitCalls) : gitCalls[i].op = "checkIsRepo"

\* The run ended on the missing token
C11_Witness ==
    /\ ~token
    /\ pc = "Failed"
    /\ exitCode = 1

\* The run ended on the repository check
C11_WitnessRepo ==
    /\ token
    /\ NotARepository
    /\ pc = "Failed"


----------------------------------------------------------------------------
(* calculateHash on its own *)

\* File paths; a colon is an ordinary character of a file name
HashPaths ==
    {<<"a", ".feature">>,
     <<"b", ".feature">>,
     <<"x", "/", "a", ".feature">>,
     <<"a", ".feature", ":", "When", " ", "y", ".feature">>}

\* Step texts of a scenario, joined
HashContents ==
    {<<>>,
     <<"When", " ", "y">>,
     <<"When", " ", "z">>,
     <<"When", " ", "y", ".feature", ":", "When", " ", "z">>}

HashInputs == [filePath : HashPaths, content : HashContents]

\* Two (path, content) pairs are given
HashInit ==
    /\ NotStarted
    /\ token = TRUE
    /\ limits = [maxChanges |-> 0, maxScen |-> 0]
    /\ probe \in [fn : {"calculateHash"}, args : HashInputs \X HashInputs,
                  results : {<<>>}]

\* calculateHash is called on the first pair, on the second, and on the first
\* again
HashPairs ==
    /\ probe.fn = "calculateHash"
    /\ probe.results = <<>>
    /\ probe' = [probe EXCEPT !.results =
                    <<calculateHash(probe.args[1].content, probe.args[1].filePath),
                      calculateHash(probe.args[2].content, probe.args[2].filePath),
                      calculateHash(probe.args[1].content, probe.args[1].filePath)>>]
    /\ UNCHANGED <<pc, token, limits, lastSyncedCommit, headCommit, changes,
                   processedChanges, oldHashes, dropped, resolvedIds, payload, calls,
                   responses, gitCalls, reported, exitCode>>

HashNext == HashPairs

HashSpec == HashInit /\ [][HashNext]_vars

Hashed == probe.fn = "calculateHash" /\ probe.results # <<>>

\* C12: calculateHash returns the same value on repeated calls, and different
\* values for two (path, content) pairs that differ in path or in content.
C12_HashDeterminism ==
    Hashed =>
        /\ probe.results[1] = probe.results[3]
        /\ probe.args[1] # probe.args[2] => probe.results[1] # probe.results[2]

\* What does hold: the value is stable, and differs for two pairs of which
\* neither path holds a colon
C12_HashWithoutColon ==
    Hashed =>
        /\ probe.results[1] = probe.results[3]
        /\ (/\ probe.args[1] # probe.args[2]
            /\ ":" \notin Range(probe.args[1].filePath)
            /\ ":" \notin Range(probe.args[2].filePath))
           => probe.results[1] # probe.results[2]


----------------------------------------------------------------------------
(* parseGherkinFile on its own *)

StepThenY == [keyword |-> <<"Then", " ">>, text |-> <<"y">>]

ExtractStepLists ==
    {<<StepWhen>>, <<StepThen>>, <<StepThenY>>,
     <<StepWhen, StepThen>>, <<StepThen, StepWhen>>}

ExtractScenarios == [name : {"T1"}, steps : ExtractStepLists]

\* Files of at most two scenarios, with or without description and Background
ExtractContents ==
    UNION {[kind : {"feature"}, name : {"F"},
            shell : {[description |-> <<"d">>, background |-> Some(<<StepGiven>>)],
                     [description |-> <<>>, background |-> None]},
            scenarios : [1..n -> ExtractScenarios]] : n \in 0..2}
    \cup {BadContent, EmptyContent}

ExtractPaths ==
    {<<"a", ".feature">>,
     <<"b", ".feature">>,
     <<"a", ".feature", ":", "When", " ", "y", ".feature">>}

ExtractInputs == [content : ExtractContents, filePath : ExtractPaths]

\* Two files are given, each with its path
ExtractInit ==
    /\ NotStarted
    /\ token = TRUE
    /\ limits = [maxChanges |-> 0, maxScen |-> 0]
    /\ probe \in [fn : {"parseGherkinFile"}, args : ExtractInputs \X ExtractInputs,
                  results : {<<>>}]

\* parseGherkinFile is called on each file
ParsePair ==
    /\ probe.fn = "parseGherkinFile"
    /\ probe.results = <<>>
    /\ probe' = [probe EXCEPT !.results =
                    <<parseGherkinFile(probe.args[1].content, probe.args[1].filePath),
                      parseGherkinFile(probe.args[2].content, probe.args[2].filePath)>>]
    /\ UNCHANGED <<pc, token, limits, lastSyncedCommit, headCommit, changes,
                   processedChanges, oldHashes, dropped, resolvedIds, payload, calls,
                   responses, gitCalls, reported, exitCode>>

ExtractNext == ParsePair

ExtractSpec == ExtractInit /\ [][ExtractNext]_vars

\* Both files were parsed into documents
ParsedBoth ==
    /\ probe.fn = "parseGherkinFile"
    /\ probe.results # <<>>
    /\ probe.results[1].kind = "doc"
    /\ probe.results[2].kind = "doc"

\* C13: the same feature content extracted at two different paths yields
\* different feature hashes and, for every scenario, different scenario
\* hashes.
C13_PathSensitivity ==
    (/\ ParsedBoth
     /\ probe.args[1].content = probe.args[2].content
     /\ probe.args[1].filePath # probe.args[2].filePath)
    => /\ probe.results[1].featureHash # probe.results[2].featureHash
       /\ \A i \in 1..Len(probe.results[1].scenarios) :
             probe.results[1].scenarios[i].hash # probe.results[2].scenarios[i].hash

\* A file of two scenarios extracted at two paths, one of them with a colon
C13_Witness ==
    /\ ParsedBoth
    /\ probe.args[1].content = probe.args[2].content
    /\ probe.args[1].filePath = <<"a", ".feature">>
    /\ ":" \in Range(probe.args[2].filePath)
    /\ Len(probe.results[1].scenarios) = 2

\* The two files have as many scenarios, and scenario by scenario as many steps
SameShape(c1, c2) ==
    /\ Len(c1.scenarios) = Len(c2.scenarios)
    /\ \A i \in 1..Len(c1.scenarios) :
          Len(c1.scenarios[i].steps) = Len(c2.scenarios[i].steps)

\* Some scenario step of the two files differs in keyword or in text
StepDiffers(c1, c2) ==
    \E i \in 1..Len(c1.scenarios) : \E j \in 1..Len(c1.scenarios[i].steps) :
        \/ c1.scenarios[i].steps[j].keyword # c2.scenarios[i].steps[j].keyword
        \/ c1.scenarios[i].steps[j].text # c2.scenarios[i].steps[j].text

\* C14: two versions of a file at the same path, with the same description,
\* the same background and the same number of scenarios and steps, that differ
\* in the keyword or text of a scenario step, have different featureHash
\* values.
C14_FeatureHashCoversSteps ==
    (/\ ParsedBoth
     /\ probe.args[1].filePath = probe.args[2].filePath
     /\ probe.args[1].content.shell = probe.args[2].content.shell
     /\ SameShape(probe.args[1].content, probe.args[2].content)
     /\ StepDiffers(probe.args[1].content, probe.args[2].content))
    => probe.results[1].featureHash # probe.results[2].featureHash


----------------------------------------------------------------------------
(* Properties of the payload *)

\* C15: a scenario entry that is no deletion marker carries its steps list if
\* and only if the status of its change is not R100; the entries of Added,
\* Modified and R<100 changes always carry steps.
C15_StepInclusion ==
    Built =>
        \A c \in 1..Len(payload[1].changes) :
            LET ch == payload[1].changes[c]
            IN  \A e \in Range(Entries(ch)) :
                    ~IsMarker(e) =>
                        /\ Has(e, "steps") <=> ch.status # <<"R", "1", "0", "0">>
                        /\ ch.status \in {<<"A">>, <<"M">>, <<"R", "0", "9", "0">>}
                              => Has(e, "steps")

\* A payload with the scenario of a pure rename and the scenario of a rename
\* with changes
C15_Witness ==
    /\ Built
    /\ \E c, d \in 1..Len(payload[1].changes) :
          /\ payload[1].changes[c].status = <<"R", "1", "0", "0">>
          /\ payload[1].changes[d].status = <<"R", "0", "9", "0">>
          /\ \E e \in Range(Entries(payload[1].changes[c])) : ~IsMarker(e)
          /\ \E e \in Range(Entries(payload[1].changes[d])) : Has(e, "steps")

\* C16: a feature entry carries prevHash, the old feature hash, if and only
\* if the status is a rename and an old feature hash exists; it carries
\* suiteId if and only if an old feature hash exists and identities.suites
\* maps it, and then suiteId is that id. The feature of a Modified change never
\* carries prevHash.
C16_FeatureLinkage ==
    Built =>
        \A c \in 1..Len(payload[1].changes) :
            LET ch == payload[1].changes[c]
                hasOld == Has(processedChanges[c], "oldFeatureHash")
            IN  Has(ch, "feature") =>
                    /\ Has(ch.feature, "prevHash") <=> (ch.status[1] = "R" /\ hasOld)
                    /\ Has(ch.feature, "prevHash") =>
                          ch.feature.prevHash = processedChanges[c].oldFeatureHash
                    /\ Has(ch.feature, "suiteId") <=>
                          /\ hasOld
                          /\ processedChanges[c].oldFeatureHash \in DOMAIN resolvedIds.suites
                    /\ Has(ch.feature, "suiteId") =>
                          ch.feature.suiteId =
                              resolvedIds.suites[processedChanges[c].oldFeatureHash].suiteId
                    /\ ch.status = <<"M">> => ~Has(ch.feature, "prevHash")

\* A payload with a Modified feature that has a suiteId and a renamed feature
\* that has a prevHash
C16_Witness ==
    /\ Built
    /\ \E c, d \in 1..Len(payload[1].changes) :
          /\ payload[1].changes[c].status = <<"M">>
          /\ Has(payload[1].changes[c], "feature")
          /\ Has(payload[1].changes[c].feature, "suiteId")
          /\ payload[1].changes[d].status[1] = "R"
          /\ Has(payload[1].changes[d], "feature")
          /\ Has(payload[1].changes[d].feature, "prevHash")


\* What C17 says of entry e
CaseIdFromMap(e) ==
    /\ Has(e, "caseId") <=>
          (Has(e, "prevHash") /\ e.prevHash \in DOMAIN resolvedIds.cases)
    /\ Has(e, "caseId") => e.caseId = resolvedIds.cases[e.prevHash].caseId

\* C17 as stated: a scenario entry carries caseId if and only if it has a
\* prevHash that identities.cases maps to a case id, and caseId is that id;
\* with empty mappings no scenario entry carries caseId.
C17_Original ==
    Built =>
        \A c \in 1..Len(payload[1].changes) :
            \A e \in Range(Entries(payload[1].changes[c])) :
                /\ CaseIdFromMap(e)
                /\ resolvedIds.cases = <<>> => ~Has(e, "caseId")

\* C17 (amended): the same of every scenario entry that is no deletion
\* marker; a deletion marker never carries caseId.
C17_CaseIdAttachment ==
    Built =>
        \A c \in 1..Len(payload[1].changes) :
            \A e \in Range(Entries(payload[1].changes[c])) :
                /\ ~IsMarker(e) => CaseIdFromMap(e)
                /\ IsMarker(e) => ~Has(e, "caseId")
                /\ resolvedIds.cases = <<>> => ~Has(e, "caseId")

\* A payload with an entry that has a caseId and an entry whose prevHash the
\* service does not know
C17_Witness ==
    /\ Built
    /\ \E c, d \in 1..Len(payload[1].changes) :
          /\ \E e \in Range(Entries(payload[1].changes[c])) : Has(e, "caseId")
          /\ \E e \in Range(Entries(payload[1].changes[d])) :
                ~IsMarker(e) /\ Has(e, "prevHash") /\ ~Has(e, "caseId")


----------------------------------------------------------------------------
(* parseDiffOutput on its own *)

PathA == <<"a", ".feature">>
PathB == <<"b", ".feature">>
PathSpaced == <<"my", " ", "file", ".feature">>

\* Lines of a diff: records of each status, records about other files,
\* a record with a space in its path, and lines that are no record
ClassifyLines ==
    {DiffLine(st, PathA, NullPath) : st \in {StatusA, StatusM, StatusD, StatusR100}}
    \cup {DiffLine(st, PathA, PathB) : st \in {StatusR100, StatusR90, <<"C", "1", "0", "0">>}}
    \cup {DiffLine(StatusR100, PathN, PathA),
          DiffLine(StatusR100, PathA, PathN),
          DiffLine(StatusM, PathN, NullPath),
          DiffLine(StatusA, PathSpaced, NullPath),
          DiffLine(StatusD, PathSpaced, NullPath),
          DiffLine(<<"T">>, PathA, NullPath),
          <<" ">> \o DiffLine(StatusM, PathA, NullPath),
          StatusM,
          PathA,
          <<>>}

ClassifyOutputs == UNION {[1..n -> ClassifyLines] : n \in 0..2}

\* A diff output is given
ClassifyInit ==
    /\ NotStarted
    /\ token = TRUE
    /\ limits = [maxChanges |-> 0, maxScen |-> 0]
    /\ probe \in [fn : {"parseDiffOutput"}, args : ClassifyOutputs, results : {None}]

\* parseDiffOutput is called on it
ClassifyOutput ==
    /\ probe.fn = "parseDiffOutput"
    /\ probe.results = None
    /\ probe' = [probe EXCEPT !.results = Some(parseDiffOutput(probe.args))]
    /\ UNCHANGED <<pc, token, limits, lastSyncedCommit, headCommit, changes,
                   processedChanges, oldHashes, dropped, resolvedIds, payload, calls,
                   responses, gitCalls, reported, exitCode>>

ClassifyNext == ClassifyOutput

ClassifySpec == ClassifyInit /\ [][ClassifyNext]_vars

Classified == probe.fn = "parseDiffOutput" /\ probe.results # None

\* A line that, spaces at its ends apart, starts with a status letter and has
\* a space after the status and something else after it
HasRecordShape(line) ==
    LET l == Trim(line)
    IN  /\ Len(l) >= 3
        /\ l[1] \in {"A", "M", "D", "R", "C"}
        /\ \E i \in 2..(Len(l) - 1) : IsSpace(l[i])

\* C18: in every change parseDiffOutput returns, oldPath is set only for D and
\* R records and newPath only for A, M and R records; one of them is set; an
\* Added change has no oldPath, a Deleted change no newPath, a Renamed change
\* both; and one of its paths ends with .feature. Lines that are not of the
\* expected shape give no change and no error.
C18_ChangeClassifier ==
    Classified =>
        LET found == probe.results[1]
        IN  /\ \A i \in 1..Len(found) :
                  LET ch == found[i]
                      letter == ch.status[1]
                  IN  /\ ch.oldPath # NullPath => letter \in {"D", "R"}
                      /\ ch.newPath # NullPath => letter \in {"A", "M", "R"}
                      /\ ch.oldPath # NullPath \/ ch.newPath # NullPath
                      /\ letter = "A" => ch.oldPath = NullPath
                      /\ letter = "D" => ch.newPath = NullPath
                      /\ letter = "R" => ch.oldPath # NullPath /\ ch.newPath # NullPath
                      /\ EndsWithFeature(ch.oldPath) \/ EndsWithFeature(ch.newPath)
            /\ Len(found) <=
                  Cardinality({j \in 1..Len(probe.args) : HasRecordShape(probe.args[j])})
            /\ (\A j \in 1..Len(probe.args) : ~HasRecordShape(probe.args[j])) =>
                  found = <<>>

\* A rename record was classified, and a line that is no record was dropped
C18_Witness ==
    /\ Classified
    /\ Len(probe.args) = 2
    /\ ~HasRecordShape(probe.args[1])
    /\ Len(probe.args[1]) > 0
    /\ Len(probe.results[1]) = 1
    /\ probe.results[1][1].status[1] = "R"


\* A step with the properties keyword and text, the keyword without a space
\* at its end
IsStepRecord(step) ==
    /\ DOMAIN step = {"keyword", "text"}
    /\ Len(step.keyword) > 0
    /\ ~IsSpace(step.keyword[Len(step.keyword)])

\* C19: every step in the payload, in a feature's background and in a
\* scenario's steps, is a record with a keyword and a text, the keyword
\* without trailing whitespace, and not one concatenated string.
C19_StepShape ==
    Built =>
        \A c \in 1..Len(payload[1].changes) :
            LET ch == payload[1].changes[c]
            IN  /\ (Has(ch, "feature") /\ ch.feature.background # None) =>
                      \A step \in Range(ch.feature.background[1]) : IsStepRecord(step)
                /\ \A e \in Range(Entries(ch)) :
                      Has(e, "steps") => \A step \in Range(e.steps) : IsStepRecord(step)


----------------------------------------------------------------------------
(* Termination *)

Terminal == {"NoOp", "ReportingResults", "Failed"}

\* C20: when every call returns or fails, a run eventually reaches one of the
\* terminal states NoOp, ReportingResults and Failed and stays in it;
\* ReportingResults is reached only after a successful submit response, and
\* Failed comes with a non-zero exit.
C20_Termination ==
    /\ <>(pc \in Terminal)
    /\ [][(pc \in Terminal) => (pc' = pc)]_vars
    /\ [](pc = "ReportingResults" =>
            /\ Len(calls) > 0
            /\ Requests[Len(calls)] = ReqSubmit
            /\ Len(responses) = Len(calls)
            /\ responses[Len(responses)] = "ok")
    /\ [](pc = "Failed" => exitCode # 0)

\* A run of two changes ended with its results reported
C20_Witness ==
    /\ pc = "ReportingResults"
    /\ Len(changes) = 2
    /\ exitCode = 0

----------------------------------------------------------------------------
(* The positional fallback *)

\* The payload entry of new scenario i of processed change c
EntryOf(c, i) == payload[1].changes[c].scenarios[i]

\* The old and the new version of the change have as many scenarios
SameCounts(change) ==
    HasOldVersion(change) /\ Len(OldScenarios(change)) = Len(NewScenarios(change))

\* C21: a new scenario that matches no old scenario by hash or by title has a
\* prevHash only when the old and new scenario counts of its file are equal,
\* and then it is the old hash at its own position; when the counts differ it
\* has no prevHash and no caseId. A scenario matched by hash or by title never
\* takes its prevHash from its position.
C21_PositionalFallbackGuard ==
    Built =>
        \A c \in 1..Len(processedChanges) :
            LET change == processedChanges[c]
            IN  \A i \in 1..Len(NewScenarios(change)) :
                    LET e == EntryOf(c, i)
                    IN  /\ (MatchKind(change, i) = "new" /\ Has(e, "prevHash")) =>
                              /\ SameCounts(change)
                              /\ e.prevHash = change.oldScenarioHashes[i]
                        /\ (MatchKind(change, i) = "new" /\ ~SameCounts(change)) =>
                              /\ ~Has(e, "prevHash")
                              /\ ~Has(e, "caseId")
                        /\ MatchKind(change, i) = "hash" =>
                              e.prevHash = change.scenarios[i].hash
                        /\ MatchKind(change, i) = "title" =>
                              e.prevHash = OldTitleToHash(change)[change.scenarios[i].title]

\* A scenario matching nothing, at a position the shorter or longer old list
\* has a hash for, while the service knows every old hash
C21_Witness ==
    /\ Built
    /\ \E c \in 1..Len(processedChanges) :
          LET change == processedChanges[c]
          IN  /\ HasOldVersion(change)
              /\ ~SameCounts(change)
              /\ \E i \in 1..Len(NewScenarios(change)) :
                    /\ MatchKind(change, i) = "new"
                    /\ i <= Len(OldScenarios(change))
                    /\ change.oldScenarioHashes[i] \in DOMAIN resolvedIds.cases
                    /\ ~Has(EntryOf(c, i), "prevHash")

\* A scenario matching nothing that takes the old hash and the case at its
\* position
C21_WitnessFallback ==
    /\ Built
    /\ \E c \in 1..Len(processedChanges) :
          LET change == processedChanges[c]
          IN  /\ SameCounts(change)
              /\ \E i \in 1..Len(NewScenarios(change)) :
                    /\ MatchKind(change, i) = "new"
                    /\ Has(EntryOf(c, i), "prevHash")
                    /\ Has(EntryOf(c, i), "caseId")

----------------------------------------------------------------------------
(* The deletion markers *)

\* The entries of a payload change that are not deletion markers
Live(payloadChange) ==
    {e \in Range(Entries(payloadChange)) : ~IsMarker(e)}

\* The hashes the live entries carry as hash or as prevHash
ClaimedBy(payloadChange) ==
    {e.hash : e \in Live(payloadChange)} \cup
    {e.prevHash : e \in {x \in Live(payloadChange) : Has(x, "prevHash")}}

\* C22: for a change whose status is not A, an old scenario hash of the file
\* is in the payload as {prevHash, deleted: true} exactly when no live entry
\* of the change carries it as hash or as prevHash, and every marker is of
\* that form for an old hash; a change with status A has no marker.
C22_DeletionMarkerRule ==
    Built =>
        \A c \in 1..Len(processedChanges) :
            LET change == processedChanges[c]
                out == payload[1].changes[c]
                markers == Range(Markers(out))
            IN  /\ change.status # StatusA =>
                      /\ \A h \in Range(OldScenarioHashes(change)) :
                            ([prevHash |-> h, deleted |-> TRUE] \in markers)
                                <=> (h \notin ClaimedBy(out))
                      /\ \A m \in markers :
                            /\ DOMAIN m = {"prevHash", "deleted"}
                            /\ m.deleted = TRUE
                            /\ m.prevHash \in Range(OldScenarioHashes(change))
                            /\ m.prevHash \notin ClaimedBy(out)
                /\ change.status = StatusA => markers = {}

\* A change in which one old scenario is claimed by title only and another is
\* marked deleted
C22_Witness ==
    /\ Built
    /\ \E c \in 1..Len(processedChanges) :
          LET change == processedChanges[c]
              out == payload[1].changes[c]
          IN  /\ change.status # StatusA
              /\ Len(Markers(out)) > 0
              /\ \E h \in Range(OldScenarioHashes(change)) :
                    /\ h \notin NewHashSet(change)
                    /\ h \in ClaimedBy(out)

\* An Added file with scenarios in the payload
C22_WitnessAdded ==
    /\ Built
    /\ \E c \in 1..Len(processedChanges) :
          /\ processedChanges[c].status = StatusA
          /\ Len(Entries(payload[1].changes[c])) > 0

----------------------------------------------------------------------------
(* A deleted file *)

\* s starts with the tokens of p
StartsWith(s, p) == Len(p) <= Len(s) /\ SubSeq(s, 1, Len(p)) = p

\* C23: a change with status D whose old version was read and parsed gives a
\* payload change with status D, the old path, a null newPath, no feature,
\* and as scenarios one marker {prevHash, deleted: true} for each entry of the
\* old scenario hash list (hashes taken at the old path), in order, and
\* nothing else.
C23_DeletedFile ==
    Built =>
        \A c \in 1..Len(processedChanges) :
            LET change == processedChanges[c]
                out == payload[1].changes[c]
                old == OldScenarioHashes(change)
            IN  change.status = StatusD =>
                    /\ out.status = StatusD
                    /\ out.oldPath = change.oldPath
                    /\ EndsWithFeature(out.oldPath)
                    /\ \E k \in 1..Len(changes) :
                          changes[k].status = StatusD /\ changes[k].oldPath = out.oldPath
                    /\ out.newPath = NullPath
                    /\ ~Has(out, "feature")
                    /\ Entries(out) =
                          [i \in 1..Len(old) |-> [prevHash |-> old[i], deleted |-> TRUE]]
                    /\ \A i \in 1..Len(old) : StartsWith(old[i], out.oldPath \o <<":">>)

\* A deleted file that held three scenarios
C23_Witness ==
    /\ Built
    /\ \E c \in 1..Len(processedChanges) :
          /\ processedChanges[c].status = StatusD
          /\ Len(OldScenarioHashes(processedChanges[c])) = 3
          /\ Len(Entries(payload[1].changes[c])) = 3

----------------------------------------------------------------------------
(* The batched identity resolution *)

\* The positions in gitCalls of the git show queries
Shows == {i \in 1..Len(gitCalls) : gitCalls[i].op = "show"}

\* The change a git show query was made for
ChangeOfShow(i) ==
    CHOOSE k \in 1..Len(changes) :
        gitCalls[i].path \in {changes[k].oldPath, changes[k].newPath}

\* The positions in calls of the resolve-ids requests
ResolveRequests == {i \in 1..Len(calls) : Requests[i] = ReqResolve}

\* A list of a request body, empty when the body has no such key
BodyList(body, key) == IF Has(body, key) THEN body[key] ELSE <<>>

\* The old feature hashes and the old scenario hashes of the processed
\* changes, in order
RECURSIVE OldFeatureHashesOf(_)
OldFeatureHashesOf(processed) ==
    IF Len(processed) = 0 THEN <<>>
    ELSE (IF Has(processed[1], "oldFeatureHash")
          THEN <<processed[1].oldFeatureHash>> ELSE <<>>)
         \o OldFeatureHashesOf(Tail(processed))

RECURSIVE OldScenarioHashesOf(_)
OldScenarioHashesOf(processed) ==
    IF Len(processed) = 0 THEN <<>>
    ELSE OldScenarioHashes(processed[1]) \o OldScenarioHashesOf(Tail(processed))

\* C24: the git show queries follow the order of the changes; a resolve-ids
\* request is sent at most once, only when every change has been handled, and
\* no file is read after it; its features and scenarios lists are the old
\* feature hashes and the old scenario hashes of the processed changes, in
\* order, and hold no hash taken at a path of a dropped change.
C24_BatchedResolution ==
    /\ \A i, j \in Shows : i < j => ChangeOfShow(i) <= ChangeOfShow(j)
    /\ Cardinality(ResolveRequests) <= 1
    /\ \A r \in ResolveRequests :
          LET body == calls[r].body
              asked == Range(BodyList(body, "features")) \cup
                       Range(BodyList(body, "scenarios"))
          IN  /\ Cursor = Len(changes) + 1
              /\ pc \notin {"ProcessingChanges", "ResolvingIdentities"}
              /\ BodyList(body, "features") = OldFeatureHashesOf(processedChanges)
              /\ BodyList(body, "scenarios") = OldScenarioHashesOf(processedChanges)
              /\ \A k \in Range(dropped) : \A h \in asked :
                    ~StartsWith(h, OldPathForLookup(changes[k]) \o <<":">>)

\* Two changes with old versions were processed and their hashes requested
\* together
C24_Witness ==
    /\ Cardinality(ResolveRequests) = 1
    /\ Len(processedChanges) = 2
    /\ \A c \in 1..2 : Has(processedChanges[c], "oldFeatureHash")
    /\ \E r \in ResolveRequests : Len(calls[r].body.features) = 2

\* A change whose old version parsed was dropped for its new version, and the
\* other change's hashes were requested
C24_WitnessDropped ==
    /\ Cardinality(ResolveRequests) = 1
    /\ \E k \in Range(dropped) :
          \E i \in ShowsAt(lastSyncedCommit, OldPathForLookup(changes[k])) :
              gitCalls[i].result = "feature"

----------------------------------------------------------------------------
(* Previous hashes claimed once *)

\* The old scenarios of the change have pairwise distinct hashes
DistinctOldHashes(change) ==
    \A i, j \in 1..Len(OldScenarioHashes(change)) :
        i # j => change.oldScenarioHashes[i] # change.oldScenarioHashes[j]

\* C25: within one change whose old scenarios have pairwise distinct hashes,
\* no two entries of new scenarios carry the same prevHash, and so none the
\* same caseId.
C25_PrevHashClaimedOnce ==
    Built =>
        \A c \in 1..Len(processedChanges) :
            LET change == processedChanges[c]
            IN  DistinctOldHashes(change) =>
                    \A i, j \in 1..Len(NewScenarios(change)) :
                        (/\ i # j
                         /\ Has(EntryOf(c, i), "prevHash")
                         /\ Has(EntryOf(c, j), "prevHash")) =>
                            /\ EntryOf(c, i).prevHash # EntryOf(c, j).prevHash
                            /\ (Has(EntryOf(c, i), "caseId") /\ Has(EntryOf(c, j), "caseId"))
                                  => EntryOf(c, i).caseId # EntryOf(c, j).caseId


\* Two new scenarios with different hashes and titles that both claim the one
\* old scenario, one by its steps and one by its title
C25_SplitScenario ==
    /\ Built
    /\ \E c \in 1..Len(processedChanges) :
          LET change == processedChanges[c]
          IN  /\ Len(OldScenarioHashes(change)) = 1
              /\ Len(NewScenarios(change)) = 2
              /\ EntryOf(c, 1).hash # EntryOf(c, 2).hash
              /\ EntryOf(c, 1).title # EntryOf(c, 2).title
              /\ Has(EntryOf(c, 1), "caseId")
              /\ Has(EntryOf(c, 2), "caseId")
              /\ EntryOf(c, 1).caseId = EntryOf(c, 2).caseId

----------------------------------------------------------------------------
(* Successive runs against one repository and one service *)

\* The paths of the repository's spec files, in the order git lists them
ChainPathSeq == <<OldName(1), NewName(1)>>

\* A tree maps the paths it tracks to their contents; every file parses
Trees ==
    UNION {[S -> FeatureContents(MaxScenChain)] : S \in SUBSET Range(ChainPathSeq)}

EmptyTree == <<>>

\* The concatenation of a sequence of sequences
RECURSIVE Flatten(_)
Flatten(seqs) ==
    IF Len(seqs) = 0 THEN <<>> ELSE seqs[1] \o Flatten(Tail(seqs))

\* The pairings of a removed path with an added path that git diff
\* --find-renames may report as renames: a removed file and an added file
\* with the same content are always paired, others when git finds them
\* similar enough
RenameChoices(old, new) ==
    LET removed == DOMAIN old \ DOMAIN new
        added == DOMAIN new \ DOMAIN old
    IN  {r \in SUBSET (removed \X added) :
            /\ \A x, y \in r : (x[1] = y[1] \/ x[2] = y[2]) => x = y
            /\ \A p \in removed, q \in added :
                  old[p] = new[q] => \E x \in r : x[1] = p \/ x[2] = q}

\* The records of git diff --name-status between two trees, given the renames
\* it detected, and the empty line after the last newline
DiffBetween(old, new, renames) ==
    LET Record(p) ==
            IF \E r \in renames : r[1] = p
            THEN LET q == (CHOOSE r \in renames : r[1] = p)[2]
                 IN  <<DiffLine(IF old[p] = new[q] THEN StatusR100 ELSE StatusR90, p, q)>>
            ELSE IF \E r \in renames : r[2] = p THEN <<>>
            ELSE IF p \in DOMAIN old /\ p \notin DOMAIN new
            THEN <<DiffLine(StatusD, p, NullPath)>>
            ELSE IF p \in DOMAIN new /\ p \notin DOMAIN old
            THEN <<DiffLine(StatusA, p, NullPath)>>
            ELSE IF p \in DOMAIN old /\ p \in DOMAIN new /\ old[p] # new[p]
            THEN <<DiffLine(StatusM, p, NullPath)>>
            ELSE <<>>
    IN  Flatten([i \in 1..Len(ChainPathSeq) |-> Record(ChainPathSeq[i])]) \o << <<>> >>

\* The output of git ls-tree -r --name-only for a tree
LsTreeOf(tree) ==
    Flatten([i \in 1..Len(ChainPathSeq) |->
                IF ChainPathSeq[i] \in DOMAIN tree THEN <<ChainPathSeq[i]>> ELSE <<>>])
    \o << <<>> >>

\* What git show <rev>:<path> answers in a tree
ShowOf(tree, path) ==
    IF path \in DOMAIN tree THEN tree[path] ELSE FetchError

\* Lines 113-126 over a whole change list: the changes processChange returned
RECURSIVE ProcessAll(_, _, _, _)
ProcessAll(found, prevCommit, old, new) ==
    IF Len(found) = 0 THEN <<>>
    ELSE
        LET processed == processChange(found[1], prevCommit,
                                       ShowOf(old, OldPathForLookup(found[1])),
                                       ShowOf(new, found[1].newPath))
        IN  (IF processed # None THEN <<processed[1]>> ELSE <<>>)
            \o ProcessAll(Tail(found), prevCommit, old, new)

\* oldHashes after the loop
RECURSIVE CollectAll(_, _)
CollectAll(hashes, processed) ==
    IF Len(processed) = 0 THEN hashes
    ELSE CollectAll(CollectOldHashes(hashes, processed[1]), Tail(processed))

\* The feature hashes and scenario hashes a submitted payload carries
EmittedBy(body) ==
    UNION {(IF Has(body.changes[c], "feature")
            THEN {body.changes[c].feature.hash} ELSE {})
           \cup {e.hash : e \in {x \in Range(Entries(body.changes[c])) : Has(x, "hash")}}
           : c \in 1..Len(body.changes)}

\* No run yet: the service has no last-synced revision and the repository no
\* spec file
ChainInit ==
    /\ NotStarted
    /\ token = TRUE
    /\ limits = [maxChanges |-> Len(ChainPathSeq), maxScen |-> MaxScenChain]
    /\ probe = [fn |-> "runs", runs |-> 0, stage |-> "idle",
                prevCommit |-> NullCommit, synced |-> EmptyTree, head |-> EmptyTree,
                found |-> <<>>, processed |-> <<>>,
                hashes |-> [features |-> <<>>, scenarios |-> <<>>], ids |-> EmptyIds,
                before |-> {}, asked |-> {}, seen |-> {}]

\* Between two runs, commits move HEAD to another tree
ChainCommit ==
    /\ probe.fn = "runs"
    /\ probe.stage = "idle"
    /\ probe.runs < MaxRuns
    /\ \E tree \in Trees :
          /\ tree # probe.head
          /\ probe' = [probe EXCEPT !.head = tree]
    /\ UNCHANGED <<pc, token, limits, lastSyncedCommit, headCommit, changes,
                   processedChanges, oldHashes, dropped, resolvedIds, payload, calls,
                   responses, gitCalls, reported, exitCode>>

\* Lines 57-106 of a run that goes on: the changes between the tree last
\* synced and the tree at HEAD, or every spec file of an initial sync
ChainDiff ==
    /\ probe.fn = "runs"
    /\ probe.stage = "idle"
    /\ probe.runs < MaxRuns
    /\ \E renames \in RenameChoices(probe.synced, probe.head) :
          LET found == IF probe.prevCommit # NullCommit
                       THEN parseDiffOutput(DiffBetween(probe.synced, probe.head, renames))
                       ELSE InitialChanges(LsTreeOf(probe.head))
          IN  /\ Len(found) > 0
              /\ probe' = [probe EXCEPT !.stage = "processing", !.found = found]
    /\ UNCHANGED <<pc, token, limits, lastSyncedCommit, headCommit, changes,
                   processedChanges, oldHashes, dropped, resolvedIds, payload, calls,
                   responses, gitCalls, reported, exitCode>>

\* Lines 113-126: the loop over the changes
ChainProcess ==
    /\ probe.fn = "runs"
    /\ probe.stage = "processing"
    /\ probe' = [probe EXCEPT
                    !.stage = "resolving",
                    !.processed = ProcessAll(probe.found, probe.prevCommit,
                                             probe.synced, probe.head)]
    /\ UNCHANGED <<pc, token, limits, lastSyncedCommit, headCommit, changes,
                   processedChanges, oldHashes, dropped, resolvedIds, payload, calls,
                   responses, gitCalls, reported, exitCode>>

\* Lines 119-135: the old hashes are sent to resolve-ids, when there are any
ChainCollect ==
    /\ probe.fn = "runs"
    /\ probe.stage = "resolving"
    /\ probe' = [probe EXCEPT
                    !.stage = "answering",
                    !.hashes = CollectAll([features |-> <<>>, scenarios |-> <<>>],
                                          probe.processed)]
    /\ UNCHANGED <<pc, token, limits, lastSyncedCommit, headCommit, changes,
                   processedChanges, oldHashes, dropped, resolvedIds, payload, calls,
                   responses, gitCalls, reported, exitCode>>

\* Lines 398-435: the service answers with the identities of the hashes that
\* earlier payloads carried
ChainResolve ==
    /\ probe.fn = "runs"
    /\ probe.stage = "answering"
    /\ probe' = [probe EXCEPT
                    !.stage = "building",
                    !.before = probe.seen,
                    !.asked = IF NoOldHashes(probe.hashes) THEN {}
                              ELSE RequestedHashes(probe.hashes),
                    !.ids = IF NoOldHashes(probe.hashes) THEN EmptyIds
                            ELSE IdentityMap(probe.hashes,
                                             RequestedHashes(probe.hashes) \cap probe.seen)]
    /\ UNCHANGED <<pc, token, limits, lastSyncedCommit, headCommit, changes,
                   processedChanges, oldHashes, dropped, resolvedIds, payload, calls,
                   responses, gitCalls, reported, exitCode>>

\* Lines 154-172: the payload is built and accepted, and HEAD becomes the
\* last-synced revision
ChainSubmit ==
    /\ probe.fn = "runs"
    /\ probe.stage = "building"
    /\ probe' = [probe EXCEPT
                    !.stage = "idle",
                    !.runs = @ + 1,
                    !.prevCommit = "c1",
                    !.synced = probe.head,
                    !.found = <<>>,
                    !.processed = <<>>,
                    !.hashes = [features |-> <<>>, scenarios |-> <<>>],
                    !.ids = EmptyIds,
                    !.seen = @ \cup EmittedBy(buildSyncPayload(probe.prevCommit, "c2",
                                                               probe.processed, probe.ids))]
    /\ UNCHANGED <<pc, token, limits, lastSyncedCommit, headCommit, changes,
                   processedChanges, oldHashes, dropped, resolvedIds, payload, calls,
                   responses, gitCalls, reported, exitCode>>

ChainNext ==
    \/ ChainCommit
    \/ ChainDiff
    \/ ChainProcess
    \/ ChainCollect
    \/ ChainResolve
    \/ ChainSubmit

ChainSpec == ChainInit /\ [][ChainNext]_vars

\* C26: in a sequence of successful runs that starts with an initial sync,
\* over revisions whose spec files all parse, every hash a run sends to
\* resolve-ids was carried as a feature hash or a scenario hash by the
\* payload of an earlier run.
C26_HashContinuity ==
    probe.fn = "runs" => probe.asked \subseteq probe.before

----------------------------------------------------------------------------
(* A pure rename *)

\* The change was reported as R100 and both versions were read: the content
\* at the new path is the content at the old path
PureRename(change) ==
    /\ change.status = StatusR100
    /\ HasOldVersion(change)
    /\ Has(change, "scenarios")

\* C27: the payload change of a pure rename has no deletion marker, and its
\* i-th scenario entry has the hash of the i-th old scenario as prevHash,
\* also when two scenarios of the file share a title.
C27_PureRenameNoDeletions ==
    Built =>
        \A c \in 1..Len(processedChanges) :
            LET change == processedChanges[c]
            IN  PureRename(change) =>
                    /\ Markers(payload[1].changes[c]) = <<>>
                    /\ Len(change.scenarios) = Len(change.oldScenarios)
                    /\ \A i \in 1..Len(change.scenarios) :
                          /\ Has(EntryOf(c, i), "prevHash")
                          /\ EntryOf(c, i).prevHash = change.oldScenarios[i].hash

\* What holds of a pure rename of a file whose scenario titles are pairwise
\* distinct
C27_DistinctTitles ==
    Built =>
        \A c \in 1..Len(processedChanges) :
            LET change == processedChanges[c]
            IN  (/\ PureRename(change)
                 /\ \A i, j \in 1..Len(change.oldScenarios) :
                       i # j => change.oldScenarios[i].title # change.oldScenarios[j].title)
                =>  /\ Markers(payload[1].changes[c]) = <<>>
                    /\ \A i \in 1..Len(change.scenarios) :
                          /\ Has(EntryOf(c, i), "prevHash")
                          /\ EntryOf(c, i).prevHash = change.oldScenarios[i].hash

----------------------------------------------------------------------------
(* Where previous hashes come from *)

\* C28: every prevHash of a scenario entry, deleted or not, is one of the old
\* scenario hashes of its own change, and every feature prevHash is the old
\* feature hash of its own change; a suiteId or caseId is only carried with
\* an old version; in an initial sync no feature and no scenario entry
\* carries prevHash, suiteId or caseId.
C28_PrevHashFromOldVersion ==
    Built =>
        \A c \in 1..Len(processedChanges) :
            LET change == processedChanges[c]
                out == payload[1].changes[c]
            IN  /\ \A e \in Range(Entries(out)) :
                      /\ Has(e, "prevHash") =>
                            e.prevHash \in Range(OldScenarioHashes(change))
                      /\ Has(e, "caseId") => Has(e, "prevHash")
                /\ Has(out, "feature") =>
                      /\ Has(out.feature, "prevHash") =>
                            /\ Has(change, "oldFeatureHash")
                            /\ out.feature.prevHash = change.oldFeatureHash
                      /\ Has(out.feature, "suiteId") => Has(change, "oldFeatureHash")
                /\ InitialSync =>
                      /\ \A e \in Range(Entries(out)) :
                            /\ ~Has(e, "prevHash")
                            /\ ~Has(e, "caseId")
                            /\ ~Has(e, "deleted")
                      /\ Has(out, "feature") =>
                            /\ ~Has(out.feature, "prevHash")
                            /\ ~Has(out.feature, "suiteId")

\* A regular sync of two changed files, each with a scenario entry carrying a
\* prevHash, one of them renamed
C28_Witness ==
    /\ Built
    /\ RegularSync
    /\ Len(processedChanges) = 2
    /\ \A c \in 1..2 :
          \E e \in Range(Entries(payload[1].changes[c])) : Has(e, "prevHash")
    /\ \E c \in 1..2 :
          /\ Has(payload[1].changes[c], "feature")
          /\ Has(payload[1].changes[c].feature, "prevHash")

\* An initial sync whose payload holds a feature and a scenario
C28_WitnessInitial ==
    /\ Built
    /\ InitialSync
    /\ \E c \in 1..Len(processedChanges) :
          /\ Has(payload[1].changes[c], "feature")
          /\ Len(Entries(payload[1].changes[c])) > 0

----------------------------------------------------------------------------
(* A run whose changes are all dropped *)

\* The change list is not empty and processChange returned null for each
AllDropped == Len(changes) > 0 /\ Len(dropped) = Len(changes)

\* C29: when the change list is not empty and every change is dropped, the
\* run does not end as a no-op and does not fail before submitting: it sends
\* no resolve-ids request and one submit request, whose payload has
\* changes = [] and headCommit = HEAD; only the failure of that request can
\* fail the run.
C29_SubmitWithEveryChangeDropped ==
    AllDropped =>
        /\ pc # "NoOp"
        /\ TimesSent(ReqResolve) = 0
        /\ pc \in {"ResolvingIdentities", "BuildingPayload", "Submitting",
                   "ReportingResults", "Failed"}
        /\ pc \in {"Submitting", "ReportingResults", "Failed"} =>
              /\ TimesSent(ReqSubmit) = 1
              /\ Requests[Len(calls)] = ReqSubmit
              /\ calls[Len(calls)].body.changes = <<>>
              /\ calls[Len(calls)].body.headCommit = headCommit
              /\ headCommit \in HeadCommits
        /\ pc = "Failed" =>
              /\ Len(responses) = Len(calls)
              /\ responses[Len(responses)] = "fail"
        /\ pc # "Failed" => exitCode = 0

\* Both changes of a diff were dropped and the empty payload was accepted
C29_Witness ==
    /\ AllDropped
    /\ Len(changes) = 2
    /\ pc = "ReportingResults"
    /\ payload[1].changes = <<>>

----------------------------------------------------------------------------
(* Paths with whitespace *)

\* The change the claim expects for a record of one path
WholePathChange(status, path) ==
    [status |-> status,
     oldPath |-> IF status = StatusD THEN path ELSE NullPath,
     newPath |-> IF status = StatusD THEN NullPath ELSE path]

\* C30: for every record of the diff with status A, M or D and one path
\* ending in .feature, parseDiffOutput returns a change whose path (newPath
\* for A and M, oldPath for D) is the whole path text of the record, also
\* when the path holds a space.
C30_PathsClassifiedWhole ==
    Classified =>
        \A j \in 1..Len(probe.args) :
            \A st \in {StatusA, StatusM, StatusD}, path \in {PathA, PathSpaced} :
                probe.args[j] = DiffLine(st, path, NullPath) =>
                    WholePathChange(st, path) \in Range(probe.results[1])

\* What holds: the same for paths without whitespace
C30_PathsWithoutSpace ==
    Classified =>
        \A j \in 1..Len(probe.args) :
            \A st \in {StatusA, StatusM, StatusD} :
                probe.args[j] = DiffLine(st, PathA, NullPath) =>
                    WholePathChange(st, PathA) \in Range(probe.results[1])

====
